---------------------------- MODULE Spec2Model ----------------------------
(***************************************************************************)
(* A model of the KS interpreter: src/lexer.py (Lexer), src/parser.py      *)
(* (Parser), src/interpreter.py (Environment, KSFunction, Interpreter) and *)
(* src/ks.py (KSCompiler.compile_file / run).                              *)
(*                                                                         *)
(* Text is modelled as a sequence of one-character strings, so that the    *)
(* lexer reads it character by character as the code does.  Python values  *)
(* are tagged records; Python exceptions are records naming their class.   *)
(***************************************************************************)
EXTENDS Integers, Sequences, FiniteSets, TLC

\* ------------------------------------------------------------------------
\* Python helpers
\* ------------------------------------------------------------------------

\* Python's None where the code returns it in place of a character.
None == "None"

\* An exception object: its class and its message; NoExc is "nothing raised".
Exc(type, msg) == [type |-> type, msg |-> msg]
NoExc == Exc("none", "")

\* A call followed by the rest of the method: an exception the call raises
\* leaves the method at once, and the rest runs only when nothing was raised.
Then(r, rest(_)) == IF r.exc # NoExc THEN r ELSE rest(r)

\* str.isdigit / str.isalpha / str.isalnum on the characters of the model's
\* alphabet (ASCII).
isdigit(c) == c \in {"0","1","2","3","4","5","6","7","8","9"}
isalpha(c) ==
  c \in {"a","b","c","d","e","f","g","h","i","j","k","l","m","n","o","p","q",
         "r","s","t","u","v","w","x","y","z",
         "A","B","C","D","E","F","G","H","I","J","K","L","M","N","O","P","Q",
         "R","S","T","U","V","W","X","Y","Z"}
isalnum(c) == isalpha(c) \/ isdigit(c)

\* ------------------------------------------------------------------------
\* src/lexer.py
\* ------------------------------------------------------------------------

Token(type, value, line, column) ==
  [type |-> type, value |-> value, line |-> line, column |-> column]

keywords ==
  [w \in {<<"l","e","t">>, <<"f","u","n","c">>, <<"i","f">>,
          <<"e","l","s","e">>, <<"f","o","r">>, <<"w","h","i","l","e">>,
          <<"r","e","t","u","r","n">>, <<"g","o","r","u","n">>,
          <<"t","r","u","e">>, <<"f","a","l","s","e">>} |->
     CASE w = <<"l","e","t">> -> "LET"
       [] w = <<"f","u","n","c">> -> "FUNC"
       [] w = <<"i","f">> -> "IF"
       [] w = <<"e","l","s","e">> -> "ELSE"
       [] w = <<"f","o","r">> -> "FOR"
       [] w = <<"w","h","i","l","e">> -> "WHILE"
       [] w = <<"r","e","t","u","r","n">> -> "RETURN"
       [] w = <<"g","o","r","u","n">> -> "GORUN"
       [] w = <<"t","r","u","e">> -> "TRUE"
       [] w = <<"f","a","l","s","e">> -> "FALSE"]

operators ==
  [w \in {<<"+">>, <<"-">>, <<"*">>, <<"/">>, <<"%">>, <<"=">>, <<"=","=">>,
          <<"!","=">>, <<"<">>, <<">">>, <<"<","=">>, <<">","=">>,
          <<"&","&">>, <<"|","|">>, <<"!">>} |->
     CASE w = <<"+">> -> "PLUS"
       [] w = <<"-">> -> "MINUS"
       [] w = <<"*">> -> "MULTIPLY"
       [] w = <<"/">> -> "DIVIDE"
       [] w = <<"%">> -> "MODULO"
       [] w = <<"=">> -> "ASSIGN"
       [] w = <<"=","=">> -> "EQUAL"
       [] w = <<"!","=">> -> "NOT_EQUAL"
       [] w = <<"<">> -> "LESS_THAN"
       [] w = <<">">> -> "GREATER_THAN"
       [] w = <<"<","=">> -> "LESS_EQUAL"
       [] w = <<">","=">> -> "GREATER_EQUAL"
       [] w = <<"&","&">> -> "AND"
       [] w = <<"|","|">> -> "OR"
       [] w = <<"!">> -> "NOT"]

delimiters ==
  [c \in {";", ",", "(", ")", "{", "}"} |->
     CASE c = ";" -> "SEMICOLON"
       [] c = "," -> "COMMA"
       [] c = "(" -> "LEFT_PAREN"
       [] c = ")" -> "RIGHT_PAREN"
       [] c = "{" -> "LEFT_BRACE"
       [] c = "}" -> "RIGHT_BRACE"]

\* The lexer's cursor: Lexer.pos (0-based), Lexer.line, Lexer.column.
Cursor(pos, line, column) == [pos |-> pos, line |-> line, column |-> column]

current_char(txt, lx) == IF lx.pos >= Len(txt) THEN None ELSE txt[lx.pos + 1]

peek_char(txt, lx) ==
  IF lx.pos + 1 >= Len(txt) THEN None ELSE txt[lx.pos + 2]

advance(txt, lx) ==
  IF lx.pos < Len(txt) /\ txt[lx.pos + 1] = "\n"
    THEN Cursor(lx.pos + 1, lx.line + 1, 1)
    ELSE Cursor(lx.pos + 1, lx.line, lx.column + 1)

RECURSIVE skip_whitespace(_, _)
skip_whitespace(txt, lx) ==
  IF current_char(txt, lx) \in {" ", "\t", "\r"}
    THEN skip_whitespace(txt, advance(txt, lx))
    ELSE lx

RECURSIVE skip_comment(_, _)
skip_comment(txt, lx) ==
  IF current_char(txt, lx) # None /\ current_char(txt, lx) # "\n"
    THEN skip_comment(txt, advance(txt, lx))
    ELSE lx

\* The three read_* loops return the cursor after the token and the text read.
Scan(lx, value, exc) == [lx |-> lx, value |-> value, exc |-> exc]

RECURSIVE read_number_loop(_, _, _)
read_number_loop(txt, lx, number_str) ==
  LET c == current_char(txt, lx) IN
  IF c # None /\ (isdigit(c) \/ c = ".")
    THEN read_number_loop(txt, advance(txt, lx), Append(number_str, c))
    ELSE Scan(lx, number_str, NoExc)

read_number(txt, lx) == read_number_loop(txt, lx, <<>>)

escape_chars ==
  [c \in {"n", "t", "r", "\\", "\""} |->
     CASE c = "n" -> "\n"
       [] c = "t" -> "\t"
       [] c = "r" -> "\r"
       [] c = "\\" -> "\\"
       [] c = "\"" -> "\""]

\* The loop of read_string.  After a backslash the code evaluates
\* `self.current_char() in 'ntr\\"'`; at end of input current_char() is None
\* and Python raises TypeError for `None in <str>`.
RECURSIVE read_string_loop(_, _, _)
read_string_loop(txt, lx, string_value) ==
  LET c == current_char(txt, lx) IN
  IF c = None \/ c = "\"" THEN Scan(lx, string_value, NoExc)
  ELSE IF c = "\\" THEN
    LET lx2 == advance(txt, lx)
        c2 == current_char(txt, lx2)
    IN  IF c2 = None
          THEN Scan(lx2, string_value,
                    Exc("TypeError", "'in <string>' requires string as left operand"))
        ELSE IF c2 \in DOMAIN escape_chars
          THEN read_string_loop(txt, advance(txt, lx2),
                                Append(string_value, escape_chars[c2]))
        ELSE read_string_loop(txt, advance(txt, lx2), Append(string_value, c2))
  ELSE read_string_loop(txt, advance(txt, lx), Append(string_value, c))

read_string(txt, lx) ==
  LET r == read_string_loop(txt, advance(txt, lx), <<>>) IN
  IF r.exc = NoExc /\ current_char(txt, r.lx) = "\""
    THEN Scan(advance(txt, r.lx), r.value, NoExc)
    ELSE r

RECURSIVE read_identifier_loop(_, _, _)
read_identifier_loop(txt, lx, identifier) ==
  LET c == current_char(txt, lx) IN
  IF c # None /\ (isalnum(c) \/ c = "_")
    THEN read_identifier_loop(txt, advance(txt, lx), Append(identifier, c))
    ELSE Scan(lx, identifier, NoExc)

read_identifier(txt, lx) == read_identifier_loop(txt, lx, <<>>)

\* The token type read_identifier gives to the text it read.
identifier_type(identifier) ==
  LET token_type == IF identifier \in DOMAIN keywords
                      THEN keywords[identifier] ELSE "IDENTIFIER"
  IN  IF token_type = "TRUE" \/ token_type = "FALSE"
        THEN "BOOLEAN" ELSE token_type

read_operator(txt, lx) ==
  LET char == current_char(txt, lx)
      two_char == IF peek_char(txt, lx) = None
                    THEN <<char>> ELSE <<char, peek_char(txt, lx)>>
  IN  IF two_char \in DOMAIN operators
        THEN Scan(advance(txt, advance(txt, lx)), two_char, NoExc)
      ELSE IF <<char>> \in DOMAIN operators
        THEN Scan(advance(txt, lx), <<char>>, NoExc)
      ELSE Scan(lx, <<char>>, Exc("SyntaxError", "Unknown operator"))

\* One iteration of the while loop of Lexer.tokenize: the cursor after it, the
\* tokens it appends, and the exception it raises.
LexResult(lx, toks, exc) == [lx |-> lx, toks |-> toks, exc |-> exc]

tokenize_iteration(txt, lx0) ==
  LET lx == skip_whitespace(txt, lx0)
      char == current_char(txt, lx)
  IN  IF char = None THEN LexResult(lx, <<>>, NoExc)
      ELSE IF char = "/" /\ peek_char(txt, lx) = "/"
        THEN LexResult(skip_comment(txt, lx), <<>>, NoExc)
      ELSE IF char = "\n"
        THEN LexResult(advance(txt, lx),
                       <<Token("NEWLINE", <<char>>, lx.line, lx.column)>>, NoExc)
      ELSE IF isdigit(char)
        THEN LET r == read_number(txt, lx) IN
             LexResult(r.lx, <<Token("NUMBER", r.value, lx.line, lx.column)>>, NoExc)
      ELSE IF char = "\""
        THEN LET r == read_string(txt, lx) IN
             IF r.exc # NoExc THEN LexResult(r.lx, <<>>, r.exc)
             ELSE LexResult(r.lx,
                            <<Token("STRING", r.value, lx.line, lx.column)>>, NoExc)
      ELSE IF isalpha(char) \/ char = "_"
        THEN LET r == read_identifier(txt, lx) IN
             LexResult(r.lx,
                       <<Token(identifier_type(r.value), r.value,
                               lx.line, lx.column)>>, NoExc)
      ELSE IF char \in DOMAIN delimiters
        THEN LexResult(advance(txt, lx),
                       <<Token(delimiters[char], <<char>>, lx.line, lx.column)>>,
                       NoExc)
      ELSE IF char \in {"+","-","*","/","%","=","<",">","!","&","|"}
        THEN LET r == read_operator(txt, lx) IN
             IF r.exc # NoExc THEN LexResult(r.lx, <<>>, r.exc)
             ELSE LexResult(r.lx,
                            <<Token(operators[r.value], r.value,
                                    lx.line, lx.column)>>, NoExc)
      ELSE LexResult(lx, <<>>, Exc("SyntaxError", "Unexpected character"))

\* ------------------------------------------------------------------------
\* Python values (src/interpreter.py works on the host's values directly)
\* ------------------------------------------------------------------------

\* None, bool, int, float, str and KSFunction objects.  A float is held as the
\* reduced fraction n/d (d > 0) of its exact value; the literals and operations
\* of the model stay within values a double holds exactly.
VNone == [k |-> "NoneType"]
VBool(b) == [k |-> "bool", b |-> b]
VInt(n) == [k |-> "int", n |-> n]
VStr(s) == [k |-> "str", s |-> s]
VFunc(id, declaration, closure) ==
  [k |-> "KSFunction", id |-> id, declaration |-> declaration,
   closure |-> closure]

Abs(n) == IF n < 0 THEN -n ELSE n

RECURSIVE Gcd(_, _)
Gcd(a, b) == IF b = 0 THEN a ELSE Gcd(b, a % b)

VFloat(n, d) ==
  LET g == Gcd(Abs(n), d) IN [k |-> "float", n |-> n \div g, d |-> d \div g]

DigitValue(c) ==
  CASE c = "0" -> 0 [] c = "1" -> 1 [] c = "2" -> 2 [] c = "3" -> 3
    [] c = "4" -> 4 [] c = "5" -> 5 [] c = "6" -> 6 [] c = "7" -> 7
    [] c = "8" -> 8 [] c = "9" -> 9

RECURSIVE DigitsValue(_, _)
DigitsValue(s, acc) ==
  IF s = <<>> THEN acc ELSE DigitsValue(Tail(s), 10 * acc + DigitValue(Head(s)))

RECURSIVE Pow10(_)
Pow10(k) == IF k = 0 THEN 1 ELSE 10 * Pow10(k - 1)

\* int(value) on the text of a NUMBER token without a dot: digits only.
PyInt(value) == VInt(DigitsValue(value, 0))

\* float(value) on the text of a NUMBER token with a dot.  The token starts with
\* a digit and holds digits and dots only; Python accepts it when it holds
\* exactly one dot and raises ValueError otherwise.
DotCount(value) == Cardinality({i \in 1..Len(value) : value[i] = "."})
DotIndex(value) == CHOOSE i \in 1..Len(value) : value[i] = "."

PyFloatOk(value) == DotCount(value) = 1

PyFloat(value) ==
  LET i == DotIndex(value)
      whole == SubSeq(value, 1, i - 1)
      frac == SubSeq(value, i + 1, Len(value))
  IN  VFloat(DigitsValue(whole \o frac, 0), Pow10(Len(frac)))

\* ------------------------------------------------------------------------
\* src/ast_nodes.py
\* ------------------------------------------------------------------------

\* Python's None where a node is optional.
NoneNode == [node |-> "None"]

LiteralExpression(value, type) ==
  [node |-> "LiteralExpression", value |-> value, type |-> type]
IdentifierExpression(name) == [node |-> "IdentifierExpression", name |-> name]
BinaryExpression(left, operator, right) ==
  [node |-> "BinaryExpression", left |-> left, operator |-> operator,
   right |-> right]
UnaryExpression(operator, operand) ==
  [node |-> "UnaryExpression", operator |-> operator, operand |-> operand]
CallExpression(function, arguments) ==
  [node |-> "CallExpression", function |-> function, arguments |-> arguments]
AssignmentExpression(target, value) ==
  [node |-> "AssignmentExpression", target |-> target, value |-> value]
VariableDeclaration(name, initializer) ==
  [node |-> "VariableDeclaration", name |-> name, initializer |-> initializer]
FunctionDeclaration(name, parameters, body) ==
  [node |-> "FunctionDeclaration", name |-> name, parameters |-> parameters,
   body |-> body]
ExpressionStatement(expression) ==
  [node |-> "ExpressionStatement", expression |-> expression]
BlockStatement(statements) ==
  [node |-> "BlockStatement", statements |-> statements]
IfStatement(condition, then_branch, else_branch) ==
  [node |-> "IfStatement", condition |-> condition,
   then_branch |-> then_branch, else_branch |-> else_branch]
ForStatement(initializer, condition, increment, body) ==
  [node |-> "ForStatement", initializer |-> initializer,
   condition |-> condition, increment |-> increment, body |-> body]
WhileStatement(condition, body) ==
  [node |-> "WhileStatement", condition |-> condition, body |-> body]
ReturnStatement(value) == [node |-> "ReturnStatement", value |-> value]
GorunStatement(expression) ==
  [node |-> "GorunStatement", expression |-> expression]
Program(statements) == [node |-> "Program", statements |-> statements]

\* ------------------------------------------------------------------------
\* src/parser.py
\* ------------------------------------------------------------------------

\* What a parsing method leaves behind: the node it returns (or the token, for
\* consume), Parser.current after it, and the exception it raises.
PR(node, cur, exc) == [node |-> node, cur |-> cur, exc |-> exc]

\* Parser.__init__: the token list without WHITESPACE and NEWLINE tokens.
filter_tokens(toks) ==
  SelectSeq(toks, LAMBDA t : t.type \notin {"WHITESPACE", "NEWLINE"})

peek(toks, cur) == toks[cur + 1]
Parser_previous(toks, cur) == toks[cur]
is_at_end(toks, cur) == peek(toks, cur).type = "EOF"
Parser_advance(toks, cur) == IF ~is_at_end(toks, cur) THEN cur + 1 ELSE cur
check(toks, cur, token_type) ==
  IF is_at_end(toks, cur) THEN FALSE ELSE peek(toks, cur).type = token_type
\* match(*token_types): TRUE when it advances (by one token).
match(toks, cur, token_types) == \E t \in token_types : check(toks, cur, t)

consume(toks, cur, token_type, message) ==
  IF check(toks, cur, token_type)
    THEN PR(peek(toks, cur), Parser_advance(toks, cur), NoExc)
    ELSE PR(NoneNode, cur, Exc("ParseError", message))

RECURSIVE synchronize_loop(_, _)
synchronize_loop(toks, cur) ==
  IF is_at_end(toks, cur) THEN cur
  ELSE IF Parser_previous(toks, cur).type = "SEMICOLON" THEN cur
  ELSE IF peek(toks, cur).type \in
            {"FUNC", "LET", "FOR", "IF", "WHILE", "GORUN", "RETURN"} THEN cur
  ELSE synchronize_loop(toks, Parser_advance(toks, cur))

synchronize(toks, cur) == synchronize_loop(toks, Parser_advance(toks, cur))

\* The token types each binary level of the grammar matches, lowest precedence
\* first: logical_or, logical_and, equality, comparison, term, factor.
LevelCount == 6
level_operators(level) ==
  CASE level = 1 -> {"OR"}
    [] level = 2 -> {"AND"}
    [] level = 3 -> {"EQUAL", "NOT_EQUAL"}
    [] level = 4 -> {"GREATER_THAN", "GREATER_EQUAL", "LESS_THAN", "LESS_EQUAL"}
    [] level = 5 -> {"MINUS", "PLUS"}
    [] level = 6 -> {"DIVIDE", "MULTIPLY", "MODULO"}

RECURSIVE declaration(_, _), function_declaration(_, _),
          parameters_loop(_, _, _), variable_declaration(_, _),
          statement(_, _), gorun_statement(_, _), return_statement(_, _),
          if_statement(_, _), for_statement(_, _), while_statement(_, _),
          block_statement(_, _), block_loop(_, _, _),
          expression_statement(_, _), expression(_, _), assignment(_, _),
          binary_level(_, _, _), binary_loop(_, _, _, _), unary(_, _),
          call(_, _), call_loop(_, _, _), finish_call(_, _, _),
          arguments_loop(_, _, _), primary(_, _)

primary(toks, cur) ==
  IF match(toks, cur, {"TRUE"})
    THEN PR(LiteralExpression(VBool(TRUE), "boolean"), cur + 1, NoExc)
  ELSE IF match(toks, cur, {"FALSE"})
    THEN PR(LiteralExpression(VBool(FALSE), "boolean"), cur + 1, NoExc)
  ELSE IF match(toks, cur, {"NUMBER"})
    THEN LET value == peek(toks, cur).value IN
         IF \E i \in 1..Len(value) : value[i] = "."
           THEN IF PyFloatOk(value)
                  THEN PR(LiteralExpression(PyFloat(value), "number"),
                          cur + 1, NoExc)
                  ELSE PR(NoneNode, cur + 1,
                          Exc("ValueError", "could not convert string to float"))
           ELSE PR(LiteralExpression(PyInt(value), "number"), cur + 1, NoExc)
  ELSE IF match(toks, cur, {"STRING"})
    THEN PR(LiteralExpression(VStr(peek(toks, cur).value), "string"),
            cur + 1, NoExc)
  ELSE IF match(toks, cur, {"IDENTIFIER"})
    THEN PR(IdentifierExpression(peek(toks, cur).value), cur + 1, NoExc)
  ELSE IF match(toks, cur, {"LEFT_PAREN"})
    THEN Then(expression(toks, cur + 1), LAMBDA expr :
         Then(consume(toks, expr.cur, "RIGHT_PAREN",
                      "Expected ')' after expression"), LAMBDA rp :
         PR(expr.node, rp.cur, NoExc)))
  ELSE PR(NoneNode, cur, Exc("ParseError", "Unexpected token"))

arguments_loop(toks, cur, arguments) ==
  IF match(toks, cur, {"COMMA"})
    THEN Then(expression(toks, cur + 1), LAMBDA a :
         arguments_loop(toks, a.cur, Append(arguments, a.node)))
    ELSE PR(arguments, cur, NoExc)

finish_call(toks, cur, callee) ==
  Then(IF ~check(toks, cur, "RIGHT_PAREN")
         THEN Then(expression(toks, cur), LAMBDA a :
              arguments_loop(toks, a.cur, <<a.node>>))
         ELSE PR(<<>>, cur, NoExc), LAMBDA args :
  Then(consume(toks, args.cur, "RIGHT_PAREN",
               "Expected ')' after arguments"), LAMBDA rp :
  PR(CallExpression(callee, args.node), rp.cur, NoExc)))

call_loop(toks, cur, expr) ==
  IF match(toks, cur, {"LEFT_PAREN"})
    THEN Then(finish_call(toks, cur + 1, expr), LAMBDA c :
         call_loop(toks, c.cur, c.node))
    ELSE PR(expr, cur, NoExc)

call(toks, cur) ==
  Then(primary(toks, cur), LAMBDA expr : call_loop(toks, expr.cur, expr.node))

unary(toks, cur) ==
  IF match(toks, cur, {"NOT", "MINUS"})
    THEN Then(unary(toks, cur + 1), LAMBDA right :
         PR(UnaryExpression(peek(toks, cur).value, right.node),
            right.cur, NoExc))
    ELSE call(toks, cur)

\* logical_or, logical_and, equality, comparison, term and factor are one
\* method each in the code, all of this shape: parse an operand of the next
\* level, then loop while one of the level's operators follows.
binary_loop(level, toks, cur, expr) ==
  IF match(toks, cur, level_operators(level))
    THEN Then(IF level = LevelCount THEN unary(toks, cur + 1)
              ELSE binary_level(level + 1, toks, cur + 1), LAMBDA right :
         binary_loop(level, toks, right.cur,
                     BinaryExpression(expr, peek(toks, cur).value,
                                      right.node)))
    ELSE PR(expr, cur, NoExc)

binary_level(level, toks, cur) ==
  Then(IF level = LevelCount THEN unary(toks, cur)
       ELSE binary_level(level + 1, toks, cur), LAMBDA expr :
  binary_loop(level, toks, expr.cur, expr.node))

logical_or(toks, cur) == binary_level(1, toks, cur)

assignment(toks, cur) ==
  Then(logical_or(toks, cur), LAMBDA expr :
  IF match(toks, expr.cur, {"ASSIGN"})
    THEN Then(assignment(toks, expr.cur + 1), LAMBDA value :
         IF expr.node.node = "IdentifierExpression"
           THEN PR(AssignmentExpression(expr.node, value.node), value.cur,
                   NoExc)
           ELSE PR(NoneNode, value.cur,
                   Exc("ParseError", "Invalid assignment target")))
    ELSE expr)

expression(toks, cur) == assignment(toks, cur)

expression_statement(toks, cur) ==
  Then(expression(toks, cur), LAMBDA expr :
  Then(consume(toks, expr.cur, "SEMICOLON",
               "Expected ';' after expression"), LAMBDA semi :
  PR(ExpressionStatement(expr.node), semi.cur, NoExc)))

block_loop(toks, cur, statements) ==
  IF ~check(toks, cur, "RIGHT_BRACE") /\ ~is_at_end(toks, cur)
    THEN Then(declaration(toks, cur), LAMBDA stmt :
         block_loop(toks, stmt.cur, Append(statements, stmt.node)))
    ELSE PR(statements, cur, NoExc)

block_statement(toks, cur) ==
  Then(block_loop(toks, cur, <<>>), LAMBDA stmts :
  Then(consume(toks, stmts.cur, "RIGHT_BRACE",
               "Expected '}' after block"), LAMBDA rb :
  PR(BlockStatement(stmts.node), rb.cur, NoExc)))

while_statement(toks, cur) ==
  Then(consume(toks, cur, "LEFT_PAREN",
               "Expected '(' after 'while'"), LAMBDA lp :
  Then(expression(toks, lp.cur), LAMBDA condition :
  Then(consume(toks, condition.cur, "RIGHT_PAREN",
               "Expected ')' after while condition"), LAMBDA rp :
  Then(statement(toks, rp.cur), LAMBDA body :
  PR(WhileStatement(condition.node, body.node), body.cur, NoExc)))))

for_statement(toks, cur) ==
  Then(consume(toks, cur, "LEFT_PAREN",
               "Expected '(' after 'for'"), LAMBDA lp :
  Then(IF match(toks, lp.cur, {"SEMICOLON"})
         THEN PR(NoneNode, lp.cur + 1, NoExc)
       ELSE IF match(toks, lp.cur, {"LET"})
         THEN variable_declaration(toks, lp.cur + 1)
       ELSE expression_statement(toks, lp.cur), LAMBDA initializer :
  Then(IF ~check(toks, initializer.cur, "SEMICOLON")
         THEN expression(toks, initializer.cur)
         ELSE PR(NoneNode, initializer.cur, NoExc), LAMBDA condition :
  Then(consume(toks, condition.cur, "SEMICOLON",
               "Expected ';' after for loop condition"), LAMBDA semi :
  Then(IF ~check(toks, semi.cur, "RIGHT_PAREN")
         THEN expression(toks, semi.cur)
         ELSE PR(NoneNode, semi.cur, NoExc), LAMBDA increment :
  Then(consume(toks, increment.cur, "RIGHT_PAREN",
               "Expected ')' after for clauses"), LAMBDA rp :
  Then(statement(toks, rp.cur), LAMBDA body :
  PR(ForStatement(initializer.node, condition.node, increment.node,
                  body.node), body.cur, NoExc))))))))

if_statement(toks, cur) ==
  Then(consume(toks, cur, "LEFT_PAREN",
               "Expected '(' after 'if'"), LAMBDA lp :
  Then(expression(toks, lp.cur), LAMBDA condition :
  Then(consume(toks, condition.cur, "RIGHT_PAREN",
               "Expected ')' after if condition"), LAMBDA rp :
  Then(statement(toks, rp.cur), LAMBDA then_branch :
  IF match(toks, then_branch.cur, {"ELSE"})
    THEN Then(statement(toks, then_branch.cur + 1), LAMBDA else_branch :
         PR(IfStatement(condition.node, then_branch.node, else_branch.node),
            else_branch.cur, NoExc))
    ELSE PR(IfStatement(condition.node, then_branch.node, NoneNode),
            then_branch.cur, NoExc)))))

return_statement(toks, cur) ==
  Then(IF ~check(toks, cur, "SEMICOLON")
         THEN expression(toks, cur)
         ELSE PR(NoneNode, cur, NoExc), LAMBDA value :
  Then(consume(toks, value.cur, "SEMICOLON",
               "Expected ';' after return statement"), LAMBDA semi :
  PR(ReturnStatement(value.node), semi.cur, NoExc)))

gorun_statement(toks, cur) ==
  Then(consume(toks, cur, "LEFT_PAREN",
               "Expected '(' after 'gorun'"), LAMBDA lp :
  Then(expression(toks, lp.cur), LAMBDA expr :
  Then(consume(toks, expr.cur, "RIGHT_PAREN",
               "Expected ')' after gorun expression"), LAMBDA rp :
  Then(consume(toks, rp.cur, "SEMICOLON",
               "Expected ';' after gorun statement"), LAMBDA semi :
  PR(GorunStatement(expr.node), semi.cur, NoExc)))))

statement(toks, cur) ==
  IF match(toks, cur, {"GORUN"}) THEN gorun_statement(toks, cur + 1)
  ELSE IF match(toks, cur, {"RETURN"}) THEN return_statement(toks, cur + 1)
  ELSE IF match(toks, cur, {"IF"}) THEN if_statement(toks, cur + 1)
  ELSE IF match(toks, cur, {"FOR"}) THEN for_statement(toks, cur + 1)
  ELSE IF match(toks, cur, {"WHILE"}) THEN while_statement(toks, cur + 1)
  ELSE IF match(toks, cur, {"LEFT_BRACE"}) THEN block_statement(toks, cur + 1)
  ELSE expression_statement(toks, cur)

variable_declaration(toks, cur) ==
  Then(consume(toks, cur, "IDENTIFIER", "Expected variable name"), LAMBDA name :
  Then(IF match(toks, name.cur, {"ASSIGN"})
         THEN expression(toks, name.cur + 1)
         ELSE PR(NoneNode, name.cur, NoExc), LAMBDA initializer :
  Then(consume(toks, initializer.cur, "SEMICOLON",
               "Expected ';' after variable declaration"), LAMBDA semi :
  PR(VariableDeclaration(name.node.value, initializer.node),
     semi.cur, NoExc))))

parameters_loop(toks, cur, parameters) ==
  IF match(toks, cur, {"COMMA"})
    THEN Then(consume(toks, cur + 1, "IDENTIFIER",
                      "Expected parameter name"), LAMBDA param :
         parameters_loop(toks, param.cur,
                         Append(parameters, param.node.value)))
    ELSE PR(parameters, cur, NoExc)

function_declaration(toks, cur) ==
  Then(consume(toks, cur, "IDENTIFIER", "Expected function name"), LAMBDA name :
  Then(consume(toks, name.cur, "LEFT_PAREN",
               "Expected '(' after function name"), LAMBDA lp :
  Then(IF ~check(toks, lp.cur, "RIGHT_PAREN")
         THEN Then(consume(toks, lp.cur, "IDENTIFIER",
                           "Expected parameter name"), LAMBDA param :
              parameters_loop(toks, param.cur, <<param.node.value>>))
         ELSE PR(<<>>, lp.cur, NoExc), LAMBDA parameters :
  Then(consume(toks, parameters.cur, "RIGHT_PAREN",
               "Expected ')' after parameters"), LAMBDA rp :
  Then(consume(toks, rp.cur, "LEFT_BRACE",
               "Expected '{' before function body"), LAMBDA lb :
  Then(block_statement(toks, lb.cur), LAMBDA body :
  PR(FunctionDeclaration(name.node.value, parameters.node, body.node),
     body.cur, NoExc)))))))

\* declaration catches ParseError, calls synchronize and raises it again; any
\* other exception passes through untouched.
\* A variant of declaration's handler that raises again without synchronize.
declaration_except_reraise(toks, r) == r

declaration_except(toks, r) ==
  IF r.exc.type = "ParseError"
    THEN PR(r.node, synchronize(toks, r.cur), r.exc)
    ELSE r

declaration(toks, cur) ==
  declaration_except(toks,
    IF match(toks, cur, {"FUNC"}) THEN function_declaration(toks, cur + 1)
    ELSE IF match(toks, cur, {"LET"}) THEN variable_declaration(toks, cur + 1)
    ELSE statement(toks, cur))

\* ------------------------------------------------------------------------
\* The host's operations on values, as src/interpreter.py uses them
\* ------------------------------------------------------------------------

\* What an operation on values gives: a value, or an exception.
Val(value) == [exc |-> NoExc, value |-> value]
Raise(type, msg) == [exc |-> Exc(type, msg), value |-> VNone]

\* bool is a subclass of int in Python: True and False take part in
\* arithmetic, ordering and equality as 1 and 0.
IsNumber(v) == v.k \in {"bool", "int", "float"}
Numer(v) == IF v.k = "bool" THEN (IF v.b THEN 1 ELSE 0) ELSE v.n
Denom(v) == IF v.k = "float" THEN v.d ELSE 1
\* The number n/d (d # 0) as a value of the kind Python gives the result of an
\* arithmetic operation on l and r: float when either is a float, else int.
Number(l, r, n, d) ==
  LET sn == IF d < 0 THEN -n ELSE n
      sd == Abs(d)
  IN  IF l.k = "float" \/ r.k = "float" THEN VFloat(sn, sd) ELSE VInt(sn \div sd)

\* Floor of n/d for d > 0.
Floor(n, d) == n \div d

\* The characters of the model's alphabet (ASCII without the backquote) in
\* code-point order.
CodeOrder ==
  <<
     "\t","\n","\r"," ","!","\"","#","$","%","&","'","(",")","*",
     "+",",","-",".","/","0","1","2","3","4","5","6","7","8",
     "9",":",";","<","=",">","?","@","A","B","C","D","E","F",
     "G","H","I","J","K","L","M","N","O","P","Q","R","S","T",
     "U","V","W","X","Y","Z","[","\\","]","^","_","a","b",
     "c","d","e","f","g","h","i","j","k","l","m","n","o","p",
     "q","r","s","t","u","v","w","x","y","z","{","|","}","~">>
Ord(c) == CHOOSE i \in 1..Len(CodeOrder) : CodeOrder[i] = c

RECURSIVE StrLess(_, _)
StrLess(a, b) ==
  IF b = <<>> THEN FALSE
  ELSE IF a = <<>> THEN TRUE
  ELSE IF Head(a) = Head(b) THEN StrLess(Tail(a), Tail(b))
  ELSE Ord(Head(a)) < Ord(Head(b))

RECURSIVE NatStr(_)
NatStr(n) ==
  LET digit == <<"0","1","2","3","4","5","6","7","8","9">>[(n % 10) + 1] IN
  IF n < 10 THEN <<digit>> ELSE Append(NatStr(n \div 10), digit)

IntStr(n) == IF n < 0 THEN <<"-">> \o NatStr(-n) ELSE NatStr(n)

\* The digits of the fraction r/d (0 <= r < d) by long division.  The floats the
\* model reaches have a finite expansion; MaxFracDigits caps the loop.
MaxFracDigits == 6
RECURSIVE FracStr(_, _, _)
FracStr(r, d, k) ==
  IF r = 0 \/ k = 0 THEN <<>>
  ELSE <<NatStr((10 * r) \div d)[1]>> \o FracStr((10 * r) % d, d, k - 1)

\* str(x) for a float x (repr): an integral float ends in ".0".
FloatStr(v) ==
  LET a == Abs(v.n)
      sign == IF v.n < 0 THEN <<"-">> ELSE <<>>
  IN  IF v.d = 1 THEN sign \o NatStr(a) \o <<".", "0">>
      ELSE sign \o NatStr(a \div v.d) \o <<".">>
             \o FracStr(a % v.d, v.d, MaxFracDigits)

\* str(x).  A KSFunction has no __str__: Python prints the default label of the
\* object, which differs from object to object.
PyStr(v) ==
  CASE v.k = "NoneType" -> <<"N","o","n","e">>
    [] v.k = "bool" -> IF v.b THEN <<"T","r","u","e">>
                       ELSE <<"F","a","l","s","e">>
    [] v.k = "int" -> IntStr(v.n)
    [] v.k = "float" -> FloatStr(v)
    [] v.k = "str" -> v.s
    [] v.k = "KSFunction" ->
         <<"<","K","S","F","u","n","c","t","i","o","n"," ">> \o NatStr(v.id)
           \o <<">">>

\* x == y.
PyEq(l, r) ==
  IF IsNumber(l) /\ IsNumber(r) THEN Numer(l) * Denom(r) = Numer(r) * Denom(l)
  ELSE IF l.k = "str" /\ r.k = "str" THEN l.s = r.s
  ELSE IF l.k = "NoneType" /\ r.k = "NoneType" THEN TRUE
  ELSE IF l.k = "KSFunction" /\ r.k = "KSFunction" THEN l.id = r.id
  ELSE FALSE

\* x < y, x > y, x <= y, x >= y.
PyLt(l, r) ==
  IF IsNumber(l) /\ IsNumber(r)
    THEN Val(VBool(Numer(l) * Denom(r) < Numer(r) * Denom(l)))
  ELSE IF l.k = "str" /\ r.k = "str" THEN Val(VBool(StrLess(l.s, r.s)))
  ELSE Raise("TypeError", "'<' not supported between instances")

PyLe(l, r) ==
  IF IsNumber(l) /\ IsNumber(r)
    THEN Val(VBool(Numer(l) * Denom(r) <= Numer(r) * Denom(l)))
  ELSE IF l.k = "str" /\ r.k = "str" THEN Val(VBool(~StrLess(r.s, l.s)))
  ELSE Raise("TypeError", "'<=' not supported between instances")

PyGt(l, r) ==
  IF IsNumber(l) /\ IsNumber(r)
    THEN Val(VBool(Numer(l) * Denom(r) > Numer(r) * Denom(l)))
  ELSE IF l.k = "str" /\ r.k = "str" THEN Val(VBool(StrLess(r.s, l.s)))
  ELSE Raise("TypeError", "'>' not supported between instances")

PyGe(l, r) ==
  IF IsNumber(l) /\ IsNumber(r)
    THEN Val(VBool(Numer(l) * Denom(r) >= Numer(r) * Denom(l)))
  ELSE IF l.k = "str" /\ r.k = "str" THEN Val(VBool(~StrLess(l.s, r.s)))
  ELSE Raise("TypeError", "'>=' not supported between instances")

\* x + y where neither is a str.
PyAdd(l, r) ==
  IF IsNumber(l) /\ IsNumber(r)
    THEN Val(Number(l, r, Numer(l) * Denom(r) + Numer(r) * Denom(l),
                    Denom(l) * Denom(r)))
    ELSE Raise("TypeError", "unsupported operand type(s) for +")

\* x - y.
PySub(l, r) ==
  IF IsNumber(l) /\ IsNumber(r)
    THEN Val(Number(l, r, Numer(l) * Denom(r) - Numer(r) * Denom(l),
                    Denom(l) * Denom(r)))
    ELSE Raise("TypeError", "unsupported operand type(s) for -")

RECURSIVE Repeat(_, _)
Repeat(s, n) == IF n <= 0 THEN <<>> ELSE s \o Repeat(s, n - 1)

\* x * y: a product of numbers, or a str repeated an int (or bool) number of
\* times.
PyMul(l, r) ==
  IF IsNumber(l) /\ IsNumber(r)
    THEN Val(Number(l, r, Numer(l) * Numer(r), Denom(l) * Denom(r)))
  ELSE IF l.k = "str" /\ r.k \in {"int", "bool"}
    THEN Val(VStr(Repeat(l.s, Numer(r))))
  ELSE IF r.k = "str" /\ l.k \in {"int", "bool"}
    THEN Val(VStr(Repeat(r.s, Numer(l))))
  ELSE Raise("TypeError", "unsupported operand type(s) for *")

\* x / y for y != 0: true division, always a float.
PyTrueDiv(l, r) ==
  IF IsNumber(l) /\ IsNumber(r)
    THEN LET n == Numer(l) * Denom(r)
             d == Denom(l) * Numer(r)
         IN  Val(VFloat(IF d < 0 THEN -n ELSE n, Abs(d)))
    ELSE Raise("TypeError", "unsupported operand type(s) for /")

\* "..." % x, printf-style formatting with the single argument x.  The texts of
\* the model use the conversions %s and %d and the escape %% only.
RECURSIVE PyFormat(_, _, _)
PyFormat(s, x, used) ==
  IF s = <<>>
    THEN IF used THEN Val(VStr(<<>>))
         ELSE Raise("TypeError",
                    "not all arguments converted during string formatting")
  ELSE IF Head(s) # "%"
    THEN LET rest == PyFormat(Tail(s), x, used) IN
         IF rest.exc # NoExc THEN rest
         ELSE Val(VStr(<<Head(s)>> \o rest.value.s))
  ELSE IF Len(s) = 1 THEN Raise("ValueError", "incomplete format")
  ELSE IF s[2] = "%"
    THEN LET rest == PyFormat(Tail(Tail(s)), x, used) IN
         IF rest.exc # NoExc THEN rest
         ELSE Val(VStr(<<"%">> \o rest.value.s))
  ELSE IF s[2] \notin {"s", "d"}
    THEN Raise("ValueError", "unsupported format character")
  ELSE IF used
    THEN Raise("TypeError", "not enough arguments for format string")
  ELSE IF s[2] = "d" /\ ~IsNumber(x)
    THEN Raise("TypeError", "%d format: a real number is required")
  ELSE LET text == IF s[2] = "s" THEN PyStr(x)
                   ELSE IF Numer(x) < 0
                     THEN IntStr(-((-Numer(x)) \div Denom(x)))
                   ELSE IntStr(Numer(x) \div Denom(x))
           rest == PyFormat(Tail(Tail(s)), x, TRUE)
       IN  IF rest.exc # NoExc THEN rest
           ELSE Val(VStr(text \o rest.value.s))

\* x % y: the remainder with the sign of y for numbers (ZeroDivisionError for
\* a zero y), formatting for a str x.
PyMod(l, r) ==
  IF IsNumber(l) /\ IsNumber(r)
    THEN IF Numer(r) = 0
           THEN Raise("ZeroDivisionError", "integer modulo by zero")
           ELSE LET a == Numer(l) * Denom(r)
                    b == Numer(r) * Denom(l)
                    q == IF b < 0 THEN Floor(-a, -b) ELSE Floor(a, b)
                IN  Val(Number(l, r, a - b * q, Denom(l) * Denom(r)))
  ELSE IF l.k = "str" THEN PyFormat(l.s, r, FALSE)
  ELSE Raise("TypeError", "unsupported operand type(s) for %")

\* -x.
PyNeg(v) ==
  IF v.k = "float" THEN Val(VFloat(-v.n, v.d))
  ELSE IF IsNumber(v) THEN Val(VInt(-Numer(v)))
  ELSE Raise("TypeError", "bad operand type for unary -")

\* ------------------------------------------------------------------------
\* src/interpreter.py
\* ------------------------------------------------------------------------

KSRuntimeError(msg) == Exc("KSRuntimeError", msg)
\* The ReturnValue exception carries the returned value.
ReturnValue(value) == [type |-> "ReturnValue", msg |-> "", value |-> value]

\* An Environment object: its variables (a map from names to values) and its
\* parent, the index of another Environment in the heap, or 0 for None.
Environment(parent) == [variables |-> <<>>, parent |-> parent]

\* The heap `envs` is the sequence of all Environment objects created so far;
\* an Environment is named by its index.
Environment_define(envs, e, name, value) ==
  [envs EXCEPT ![e].variables = (name :> value) @@ @]

RECURSIVE Environment_get(_, _, _)
Environment_get(envs, e, name) ==
  IF name \in DOMAIN envs[e].variables THEN Val(envs[e].variables[name])
  ELSE IF envs[e].parent # 0 THEN Environment_get(envs, envs[e].parent, name)
  ELSE [exc |-> KSRuntimeError("Undefined variable"), value |-> VNone]

\* A variant of Environment.assign that declares the name implicitly: it binds
\* the name in the scope it is called on.
Environment_assign_implicit(envs, e, name, value) ==
  [envs |-> Environment_define(envs, e, name, value), exc |-> NoExc]

\* Environment.assign: the heap after it, and the exception it raises.
RECURSIVE Environment_assign(_, _, _, _)
Environment_assign(envs, e, name, value) ==
  IF name \in DOMAIN envs[e].variables
    THEN [envs |-> [envs EXCEPT ![e].variables[name] = value], exc |-> NoExc]
  ELSE LET up == IF envs[e].parent # 0
                   THEN Environment_assign(envs, envs[e].parent, name, value)
                   ELSE [envs |-> envs,
                         exc |-> KSRuntimeError("Undefined variable")]
       IN  IF up.exc = NoExc THEN up
           ELSE [envs |-> envs, exc |-> KSRuntimeError("Undefined variable")]

is_truthy(value) ==
  IF value.k = "NoneType" THEN FALSE
  ELSE IF value.k = "bool" THEN value.b
  ELSE TRUE

stringify(value) ==
  IF value.k = "NoneType" THEN <<"n","u","l","l">>
  ELSE IF value.k = "bool"
    THEN (IF value.b THEN <<"t","r","u","e">> ELSE <<"f","a","l","s","e">>)
  ELSE IF value.k = "float"
    THEN LET text == PyStr(value) IN
         IF Len(text) >= 2 /\ SubSeq(text, Len(text) - 1, Len(text)) = <<".","0">>
           THEN SubSeq(text, 1, Len(text) - 2)
           ELSE text
  ELSE PyStr(value)

\* The part of visit_binary after both operands are evaluated.
binary_operation(operator, left, right) ==
  CASE operator = <<"+">> ->
         IF left.k = "str" \/ right.k = "str"
           THEN Val(VStr(PyStr(left) \o PyStr(right)))
           ELSE PyAdd(left, right)
    [] operator = <<"-">> -> PySub(left, right)
    [] operator = <<"*">> -> PyMul(left, right)
    [] operator = <<"/">> ->
         IF PyEq(right, VInt(0))
           THEN [exc |-> KSRuntimeError("Division by zero"), value |-> VNone]
           ELSE PyTrueDiv(left, right)
    [] operator = <<"%">> -> PyMod(left, right)
    [] operator = <<"=","=">> -> Val(VBool(PyEq(left, right)))
    [] operator = <<"!","=">> -> Val(VBool(~PyEq(left, right)))
    [] operator = <<"<">> -> PyLt(left, right)
    [] operator = <<">">> -> PyGt(left, right)
    [] operator = <<"<","=">> -> PyLe(left, right)
    [] operator = <<">","=">> -> PyGe(left, right)
    [] operator = <<"&","&">> ->
         Val(VBool(is_truthy(left) /\ is_truthy(right)))
    [] operator = <<"|","|">> ->
         Val(VBool(is_truthy(left) \/ is_truthy(right)))
    [] OTHER ->
         [exc |-> KSRuntimeError("Unknown binary operator"), value |-> VNone]

\* The part of visit_unary after the operand is evaluated.
unary_operation(operator, operand) ==
  CASE operator = <<"-">> -> PyNeg(operand)
    [] operator = <<"!">> -> Val(VBool(~is_truthy(operand)))
    [] OTHER ->
         [exc |-> KSRuntimeError("Unknown unary operator"), value |-> VNone]

\* The interpreter while it walks the tree: the heap of Environment objects,
\* Interpreter.environment, the lines printed to stdout, the number of
\* KSFunction objects created, the exception in flight (NoExc for none) and
\* the value the last expression gave.
Walk(envs, environment, out, nobj, exc, value) ==
  [envs |-> envs, environment |-> environment, out |-> out, nobj |-> nobj,
   exc |-> exc, value |-> value]

Result(st, r) == [st EXCEPT !.exc = r.exc, !.value = r.value]

RECURSIVE evaluate(_, _), execute(_, _), execute_statements(_, _),
          execute_block(_, _, _), evaluate_arguments(_, _, _),
          KSFunction_call(_, _, _), for_loop(_, _), visit_while_statement(_, _)

bind_parameters(envs, environment, parameters, arguments) ==
  LET RECURSIVE bind(_, _)
      bind(h, i) ==
        IF i > Len(parameters) THEN h
        ELSE bind(Environment_define(h, environment, parameters[i],
                                     IF i <= Len(arguments)
                                       THEN arguments[i] ELSE VNone), i + 1)
  IN  bind(envs, 1)

\* A variant of KSFunction.call with dynamic scoping: the parent of the call's
\* environment is the caller's environment instead of the closure.
KSFunction_call_dynamic(function, st, arguments) ==
  LET environment == Len(st.envs) + 1
      envs == bind_parameters(Append(st.envs, Environment(st.environment)),
                              environment, function.declaration.parameters,
                              arguments)
      returned(r) ==
        IF r.exc.type = "ReturnValue"
          THEN [r EXCEPT !.exc = NoExc, !.value = r.exc.value]
        ELSE IF r.exc # NoExc THEN r
        ELSE [r EXCEPT !.value = VNone]
  IN  returned(execute_block(function.declaration.body.statements,
                             environment, [st EXCEPT !.envs = envs]))

\* KSFunction.call: `except ReturnValue as return_value` gives the returned
\* value; a body that ends without return gives None.
KSFunction_call(function, st, arguments) ==
  LET environment == Len(st.envs) + 1
      envs == bind_parameters(Append(st.envs, Environment(function.closure)),
                              environment, function.declaration.parameters,
                              arguments)
      returned(r) ==
        IF r.exc.type = "ReturnValue"
          THEN [r EXCEPT !.exc = NoExc, !.value = r.exc.value]
        ELSE IF r.exc # NoExc THEN r
        ELSE [r EXCEPT !.value = VNone]
  IN  returned(execute_block(function.declaration.body.statements,
                             environment, [st EXCEPT !.envs = envs]))

execute_statements(statements, st) ==
  IF statements = <<>> THEN st
  ELSE Then(execute(Head(statements), st), LAMBDA r :
       execute_statements(Tail(statements), r))

\* try: ... finally: self.environment = previous
\* A variant of execute_block without try/finally: the previous environment
\* comes back only when the statements complete.
execute_block_unguarded(statements, environment, st) ==
  LET previous == st.environment
      r == execute_statements(statements,
                              [st EXCEPT !.environment = environment])
  IN  IF r.exc = NoExc THEN [r EXCEPT !.environment = previous] ELSE r

execute_block(statements, environment, st) ==
  LET previous == st.environment
      r == execute_statements(statements,
                              [st EXCEPT !.environment = environment])
  IN  [r EXCEPT !.environment = previous]

\* A variant of the argument loop that evaluates the arguments from the last
\* to the first.
RECURSIVE evaluate_arguments_reversed(_, _, _)
evaluate_arguments_reversed(arguments, st, values) ==
  IF arguments = <<>> THEN [st EXCEPT !.value = values]
  ELSE Then(evaluate(arguments[Len(arguments)], st), LAMBDA a :
       evaluate_arguments_reversed(SubSeq(arguments, 1, Len(arguments) - 1),
                                   a, <<a.value>> \o values))

\* The argument loop of visit_call: .value is the list of values so far.
evaluate_arguments(arguments, st, values) ==
  IF arguments = <<>> THEN [st EXCEPT !.value = values]
  ELSE Then(evaluate(Head(arguments), st), LAMBDA a :
       evaluate_arguments(Tail(arguments), a, Append(values, a.value)))

visit_literal(node, st) == [st EXCEPT !.value = node.value]

visit_identifier(node, st) ==
  Result(st, Environment_get(st.envs, st.environment, node.name))

visit_binary(node, st) ==
  Then(evaluate(node.left, st), LAMBDA left :
  Then(evaluate(node.right, left), LAMBDA right :
  Result(right, binary_operation(node.operator, left.value, right.value))))

visit_unary(node, st) ==
  Then(evaluate(node.operand, st), LAMBDA operand :
  Result(operand, unary_operation(node.operator, operand.value)))

visit_call(node, st) ==
  Then(evaluate(node.function, st), LAMBDA callee :
  Then(evaluate_arguments(node.arguments, callee, <<>>), LAMBDA arguments :
  IF callee.value.k = "KSFunction"
    THEN IF Len(arguments.value) # Len(callee.value.declaration.parameters)
           THEN [arguments EXCEPT
                   !.exc = KSRuntimeError("Expected N arguments but got M"),
                   !.value = VNone]
           ELSE KSFunction_call(callee.value, arguments, arguments.value)
    ELSE [arguments EXCEPT !.exc = KSRuntimeError("Can only call functions"),
                           !.value = VNone]))

visit_assignment(node, st) ==
  Then(evaluate(node.value, st), LAMBDA value :
  LET a == Environment_assign(value.envs, value.environment,
                              node.target.name, value.value)
  IN  [value EXCEPT !.envs = a.envs, !.exc = a.exc])

visit_variable_declaration(node, st) ==
  Then(IF node.initializer.node # "None"
         THEN evaluate(node.initializer, st)
         ELSE [st EXCEPT !.value = VNone], LAMBDA value :
  [value EXCEPT
     !.envs = Environment_define(value.envs, value.environment,
                                 node.name, value.value),
     !.value = VNone])

visit_function_declaration(node, st) ==
  LET function == VFunc(st.nobj + 1, node, st.environment) IN
  [st EXCEPT !.nobj = st.nobj + 1,
             !.envs = Environment_define(st.envs, st.environment, node.name,
                                         function),
             !.value = VNone]

visit_expression_statement(node, st) == evaluate(node.expression, st)

visit_block_statement(node, st) ==
  Then(execute_block(node.statements, Len(st.envs) + 1,
                     [st EXCEPT !.envs = Append(@, Environment(st.environment))]),
       LAMBDA r : [r EXCEPT !.value = VNone])

visit_if_statement(node, st) ==
  Then(evaluate(node.condition, st), LAMBDA condition_value :
  Then(IF is_truthy(condition_value.value)
         THEN execute(node.then_branch, condition_value)
       ELSE IF node.else_branch.node # "None"
         THEN execute(node.else_branch, condition_value)
       ELSE condition_value, LAMBDA r :
  [r EXCEPT !.value = VNone]))

\* The `while True` loop of visit_for_statement.
for_loop(node, st) ==
  Then(IF node.condition.node # "None"
         THEN evaluate(node.condition, st) ELSE st, LAMBDA condition_value :
  IF node.condition.node # "None" /\ ~is_truthy(condition_value.value)
    THEN condition_value
    ELSE Then(execute(node.body, condition_value), LAMBDA body :
         Then(IF node.increment.node # "None"
                THEN evaluate(node.increment, body)
                ELSE body, LAMBDA increment :
         for_loop(node, increment))))

\* try: ... finally: self.environment = previous
visit_for_statement(node, st) ==
  LET environment == Len(st.envs) + 1
      previous == st.environment
      entered == [st EXCEPT !.envs = Append(@, Environment(st.environment)),
                            !.environment = environment]
      finally(r) ==
        [r EXCEPT !.environment = previous,
                  !.value = IF r.exc # NoExc THEN r.value ELSE VNone]
  IN  finally(Then(IF node.initializer.node # "None"
                     THEN execute(node.initializer, entered)
                     ELSE entered, LAMBDA initialized :
              for_loop(node, initialized)))

visit_while_statement(node, st) ==
  Then(evaluate(node.condition, st), LAMBDA condition_value :
  IF ~is_truthy(condition_value.value)
    THEN [condition_value EXCEPT !.value = VNone]
    ELSE Then(execute(node.body, condition_value), LAMBDA body :
         visit_while_statement(node, body)))

\* A variant of visit_return_statement that drops the value: it raises
\* ReturnValue(None).
visit_return_statement_none(node, st) ==
  Then(IF node.value.node # "None" THEN evaluate(node.value, st)
       ELSE [st EXCEPT !.value = VNone], LAMBDA value :
  [value EXCEPT !.exc = ReturnValue(VNone)])

visit_return_statement(node, st) ==
  Then(IF node.value.node # "None" THEN evaluate(node.value, st)
       ELSE [st EXCEPT !.value = VNone], LAMBDA value :
  [value EXCEPT !.exc = ReturnValue(value.value)])

visit_gorun_statement(node, st) ==
  Then(evaluate(node.expression, st), LAMBDA value :
  [value EXCEPT !.out = Append(@, stringify(value.value)),
                !.value = VNone])

\* accept_visitor on an expression node.
evaluate(expr, st) ==
  CASE expr.node = "LiteralExpression" -> visit_literal(expr, st)
    [] expr.node = "IdentifierExpression" -> visit_identifier(expr, st)
    [] expr.node = "BinaryExpression" -> visit_binary(expr, st)
    [] expr.node = "UnaryExpression" -> visit_unary(expr, st)
    [] expr.node = "CallExpression" -> visit_call(expr, st)
    [] expr.node = "AssignmentExpression" -> visit_assignment(expr, st)

\* accept_visitor on a statement node.
execute(stmt, st) ==
  CASE stmt.node = "VariableDeclaration" -> visit_variable_declaration(stmt, st)
    [] stmt.node = "FunctionDeclaration" -> visit_function_declaration(stmt, st)
    [] stmt.node = "ExpressionStatement" -> visit_expression_statement(stmt, st)
    [] stmt.node = "BlockStatement" -> visit_block_statement(stmt, st)
    [] stmt.node = "IfStatement" -> visit_if_statement(stmt, st)
    [] stmt.node = "ForStatement" -> visit_for_statement(stmt, st)
    [] stmt.node = "WhileStatement" -> visit_while_statement(stmt, st)
    [] stmt.node = "ReturnStatement" -> visit_return_statement(stmt, st)
    [] stmt.node = "GorunStatement" -> visit_gorun_statement(stmt, st)

\* ------------------------------------------------------------------------
\* The source texts the model runs
\* ------------------------------------------------------------------------

\* Whole programs, each with the text it stands for in the comment above it.
Programs ==
  <<
    \* func make(){let n=0;func inc(){n=n+1;return n;}return inc;}let f=make();gorun(f());gorun(f());gorun(f());
    [name |-> "closure_counter",
     text |-> <<"f","u","n","c"," ","m","a","k","e","(",")","{","l","e","t",
                " ","n","=","0",";","f","u","n","c"," ","i","n","c","(",")",
                "{","n","=","n","+","1",";","r","e","t","u","r","n"," ","n",
                ";","}","r","e","t","u","r","n"," ","i","n","c",";","}","l",
                "e","t"," ","f","=","m","a","k","e","(",")",";","g","o","r",
                "u","n","(","f","(",")",")",";","g","o","r","u","n","(","f",
                "(",")",")",";","g","o","r","u","n","(","f","(",")",")",";">>],
    \* gorun(1 + 2); gorun("x=" + 3); gorun(7 / 2); gorun(7 % 2);
    [name |-> "arithmetic",
     text |-> <<"g","o","r","u","n","(","1"," ","+"," ","2",")",";"," ","g",
                "o","r","u","n","(","\"","x","=","\""," ","+"," ","3",")",";",
                " ","g","o","r","u","n","(","7"," ","/"," ","2",")",";"," ",
                "g","o","r","u","n","(","7"," ","%"," ","2",")",";">>],
    \* gorun(0 && "unused"); gorun(null || "fallback"); gorun(!null);
    [name |-> "truthiness",
     text |-> <<"g","o","r","u","n","(","0"," ","&","&"," ","\"","u","n","u",
                "s","e","d","\"",")",";"," ","g","o","r","u","n","(","n","u",
                "l","l"," ","|","|"," ","\"","f","a","l","l","b","a","c","k",
                "\"",")",";"," ","g","o","r","u","n","(","!","n","u","l","l",
                ")",";">>],
    \* let s=0;for(let i=0;i<5;i=i+1){s=s+i;}gorun(s);
    [name |-> "for_loop",
     text |-> <<"l","e","t"," ","s","=","0",";","f","o","r","(","l","e","t",
                " ","i","=","0",";","i","<","5",";","i","=","i","+","1",")",
                "{","s","=","s","+","i",";","}","g","o","r","u","n","(","s",
                ")",";">>],
    \* gorun(1/0);
    [name |-> "division_by_zero",
     text |-> <<"g","o","r","u","n","(","1","/","0",")",";">>],
    \* let x=1;{let x=2;gorun(x);}gorun(x);
    [name |-> "shadowing",
     text |-> <<"l","e","t"," ","x","=","1",";","{","l","e","t"," ","x","=",
                "2",";","g","o","r","u","n","(","x",")",";","}","g","o","r",
                "u","n","(","x",")",";">>],
    \* // c\nlet x = 1;\n\tgorun(x); // d
    [name |-> "layout",
     text |-> <<"/","/"," ","c","\n","l","e","t"," ","x"," ","="," ","1",";",
                "\n","\t","g","o","r","u","n","(","x",")",";"," ","/","/"," ",
                "d">>],
    \* return 1;
    [name |-> "return_top",
     text |-> <<"r","e","t","u","r","n"," ","1",";">>],
    \* gorun(1);return;gorun(2);
    [name |-> "return_top_bare",
     text |-> <<"g","o","r","u","n","(","1",")",";","r","e","t","u","r","n",
                ";","g","o","r","u","n","(","2",")",";">>],
    \* {return;}
    [name |-> "return_in_block",
     text |-> <<"{","r","e","t","u","r","n",";","}">>],
    \* if(1==1)return 2;
    [name |-> "return_in_if",
     text |-> <<"i","f","(","1","=","=","1",")","r","e","t","u","r","n"," ",
                "2",";">>],
    \* while(1==1){return;}
    [name |-> "return_in_while",
     text |-> <<"w","h","i","l","e","(","1","=","=","1",")","{","r","e","t",
                "u","r","n",";","}">>],
    \* for(;;)return;
    [name |-> "return_in_for",
     text |-> <<"f","o","r","(",";",";",")","r","e","t","u","r","n",";">>],
    \* func f(){while(1==1){if(1==1){return 7;}}}gorun(f());
    [name |-> "return_in_function",
     text |-> <<"f","u","n","c"," ","f","(",")","{","w","h","i","l","e","(",
                "1","=","=","1",")","{","i","f","(","1","=","=","1",")","{",
                "r","e","t","u","r","n"," ","7",";","}","}","}","g","o","r",
                "u","n","(","f","(",")",")",";">>],
    \* func f(){}gorun(f());
    [name |-> "return_absent",
     text |-> <<"f","u","n","c"," ","f","(",")","{","}","g","o","r","u","n",
                "(","f","(",")",")",";">>],
    \* gorun(true);
    [name |-> "true_literal",
     text |-> <<"g","o","r","u","n","(","t","r","u","e",")",";">>],
    \* let b=false;
    [name |-> "false_literal",
     text |-> <<"l","e","t"," ","b","=","f","a","l","s","e",";">>],
    \* if(true)gorun(1);
    [name |-> "true_condition",
     text |-> <<"i","f","(","t","r","u","e",")","g","o","r","u","n","(","1",
                ")",";">>],
    \* let truex=1;gorun(truex);
    [name |-> "truex_identifier",
     text |-> <<"l","e","t"," ","t","r","u","e","x","=","1",";","g","o","r",
                "u","n","(","t","r","u","e","x",")",";">>],
    \* gorun(1.2.3);
    [name |-> "number_two_dots",
     text |-> <<"g","o","r","u","n","(","1",".","2",".","3",")",";">>],
    \* let x=1..;
    [name |-> "number_trailing_dots",
     text |-> <<"l","e","t"," ","x","=","1",".",".",";">>],
    \* gorun(1.);
    [name |-> "number_trailing_dot",
     text |-> <<"g","o","r","u","n","(","1",".",")",";">>],
    \* gorun(0.5+0.25);
    [name |-> "number_float",
     text |-> <<"g","o","r","u","n","(","0",".","5","+","0",".","2","5",")",";">>],
    \* gorun(1@2);
    [name |-> "unknown_character",
     text |-> <<"g","o","r","u","n","(","1","@","2",")",";">>],
    \* gorun(1&2);
    [name |-> "single_ampersand",
     text |-> <<"g","o","r","u","n","(","1","&","2",")",";">>],
    \* let x=;gorun(1);
    [name |-> "missing_initializer",
     text |-> <<"l","e","t"," ","x","=",";","g","o","r","u","n","(","1",")",";">>],
    \* 1=2;
    [name |-> "invalid_target",
     text |-> <<"1","=","2",";">>],
    \* gorun(1
    [name |-> "unclosed_paren",
     text |-> <<"g","o","r","u","n","(","1">>],
    \* {let=1;}gorun(2);
    [name |-> "error_in_block",
     text |-> <<"{","l","e","t","=","1",";","}","g","o","r","u","n","(","2",
                ")",";">>],
    \* gorun(1);+
    [name |-> "trailing_operator",
     text |-> <<"g","o","r","u","n","(","1",")",";","+">>],
    \* gorun("a\\n\\"b\\\\\\q");
    [name |-> "string_escapes",
     text |-> <<"g","o","r","u","n","(","\"","a","\\","n","\\","\"","b","\\",
                "\\","\\","q","\"",")",";">>],
    \* "abc
    [name |-> "unterminated",
     text |-> <<"\"","a","b","c">>],
    \* gorun("ab
    [name |-> "unterminated_in_call",
     text |-> <<"g","o","r","u","n","(","\"","a","b">>],
    \* "abc\\
    [name |-> "unterminated_backslash",
     text |-> <<"\"","a","b","c","\\">>],
    \* let s="a\\"
    [name |-> "unterminated_escaped_quote",
     text |-> <<"l","e","t"," ","s","=","\"","a","\\","\"">>],
    \* gorun(1);"
    [name |-> "unterminated_empty",
     text |-> <<"g","o","r","u","n","(","1",")",";","\"">>],
    \* gorun(u);
    [name |-> "undefined_name",
     text |-> <<"g","o","r","u","n","(","u",")",";">>],
    \* x=1;
    [name |-> "undefined_assignment",
     text |-> <<"x","=","1",";">>],
    \* func f(a){gorun(a);}f();
    [name |-> "bad_arity",
     text |-> <<"f","u","n","c"," ","f","(","a",")","{","g","o","r","u","n",
                "(","a",")",";","}","f","(",")",";">>],
    \* let a=1;a();
    [name |-> "not_callable",
     text |-> <<"l","e","t"," ","a","=","1",";","a","(",")",";">>],
    \* gorun(1%0);
    [name |-> "modulo_by_zero",
     text |-> <<"g","o","r","u","n","(","1","%","0",")",";">>],
    \* gorun("%d:%s%%"%3);gorun("n=%d"%2.5);
    [name |-> "format_string",
     text |-> <<"g","o","r","u","n","(","\"","%","d",":","%","s","%","%","\"",
                "%","3",")",";","g","o","r","u","n","(","\"","n","=","%","d",
                "\"","%","2",".","5",")",";">>],
    \* gorun("ab"*2);gorun(-(1==1));gorun((1==1)-1);
    [name |-> "string_times",
     text |-> <<"g","o","r","u","n","(","\"","a","b","\"","*","2",")",";","g",
                "o","r","u","n","(","-","(","1","=","=","1",")",")",";","g",
                "o","r","u","n","(","(","1","=","=","1",")","-","1",")",";">>],
    \* let x=1;{x=2;let x=3;x=4;}gorun(x);
    [name |-> "assignment_scopes",
     text |-> <<"l","e","t"," ","x","=","1",";","{","x","=","2",";","l","e",
                "t"," ","x","=","3",";","x","=","4",";","}","g","o","r","u",
                "n","(","x",")",";">>],
    \* let i=0;while(i<3){gorun(i);i=i+1;}
    [name |-> "while_loop",
     text |-> <<"l","e","t"," ","i","=","0",";","w","h","i","l","e","(","i",
                "<","3",")","{","g","o","r","u","n","(","i",")",";","i","=",
                "i","+","1",";","}">>],
    \* let n;if(n){gorun(1);}else gorun(2);if(0)gorun(3);
    [name |-> "if_else",
     text |-> <<"l","e","t"," ","n",";","i","f","(","n",")","{","g","o","r",
                "u","n","(","1",")",";","}","e","l","s","e"," ","g","o","r",
                "u","n","(","2",")",";","i","f","(","0",")","g","o","r","u",
                "n","(","3",")",";">>],
    \* func add(a,b){return a+b;}gorun(add(1,2));gorun(add("a",1.5));
    [name |-> "call_arguments",
     text |-> <<"f","u","n","c"," ","a","d","d","(","a",",","b",")","{","r",
                "e","t","u","r","n"," ","a","+","b",";","}","g","o","r","u",
                "n","(","a","d","d","(","1",",","2",")",")",";","g","o","r",
                "u","n","(","a","d","d","(","\"","a","\"",",","1",".","5",")",
                ")",";">>],
    \* let x=1;func f(){return x;}func g(){let x=2;return f();}gorun(g());
    [name |-> "lexical_scope",
     text |-> <<"l","e","t"," ","x","=","1",";","f","u","n","c"," ","f","(",
                ")","{","r","e","t","u","r","n"," ","x",";","}","f","u","n",
                "c"," ","g","(",")","{","l","e","t"," ","x","=","2",";","r",
                "e","t","u","r","n"," ","f","(",")",";","}","g","o","r","u",
                "n","(","g","(",")",")",";">>],
    \* let x=1;func f(){return x;}x=5;gorun(f());{let x=9;gorun(f());}
    [name |-> "capture_by_reference",
     text |-> <<"l","e","t"," ","x","=","1",";","f","u","n","c"," ","f","(",
                ")","{","r","e","t","u","r","n"," ","x",";","}","x","=","5",
                ";","g","o","r","u","n","(","f","(",")",")",";","{","l","e",
                "t"," ","x","=","9",";","g","o","r","u","n","(","f","(",")",
                ")",";","}">>],
    \* func make(){let n=0;func get(){return n;}n=4;return get;}let n=8;let h=make();gorun(h());
    [name |-> "capture_local",
     text |-> <<"f","u","n","c"," ","m","a","k","e","(",")","{","l","e","t",
                " ","n","=","0",";","f","u","n","c"," ","g","e","t","(",")",
                "{","r","e","t","u","r","n"," ","n",";","}","n","=","4",";",
                "r","e","t","u","r","n"," ","g","e","t",";","}","l","e","t",
                " ","n","=","8",";","l","e","t"," ","h","=","m","a","k","e",
                "(",")",";","g","o","r","u","n","(","h","(",")",")",";">>],
    \* func f(){return 1;gorun("no");return 2;}gorun(f());
    [name |-> "return_first",
     text |-> <<"f","u","n","c"," ","f","(",")","{","r","e","t","u","r","n",
                " ","1",";","g","o","r","u","n","(","\"","n","o","\"",")",";",
                "r","e","t","u","r","n"," ","2",";","}","g","o","r","u","n",
                "(","f","(",")",")",";">>],
    \* func inner(){return 1;}func outer(){gorun(inner());gorun("o");return 2;}gorun(outer());
    [name |-> "return_innermost",
     text |-> <<"f","u","n","c"," ","i","n","n","e","r","(",")","{","r","e",
                "t","u","r","n"," ","1",";","}","f","u","n","c"," ","o","u",
                "t","e","r","(",")","{","g","o","r","u","n","(","i","n","n",
                "e","r","(",")",")",";","g","o","r","u","n","(","\"","o","\"",
                ")",";","r","e","t","u","r","n"," ","2",";","}","g","o","r",
                "u","n","(","o","u","t","e","r","(",")",")",";">>],
    \* func f(){for(let i=0;;i=i+1){if(i>1){{return i;}}}gorun("no");}gorun(f());
    [name |-> "return_in_for_function",
     text |-> <<"f","u","n","c"," ","f","(",")","{","f","o","r","(","l","e",
                "t"," ","i","=","0",";",";","i","=","i","+","1",")","{","i",
                "f","(","i",">","1",")","{","{","r","e","t","u","r","n"," ",
                "i",";","}","}","}","g","o","r","u","n","(","\"","n","o","\"",
                ")",";","}","g","o","r","u","n","(","f","(",")",")",";">>],
    \* func f(){return;}gorun(f());
    [name |-> "return_bare",
     text |-> <<"f","u","n","c"," ","f","(",")","{","r","e","t","u","r","n",
                ";","}","g","o","r","u","n","(","f","(",")",")",";">>],
    \* let a=1;{let b=2;{u;}}gorun(a);
    [name |-> "error_in_block",
     text |-> <<"l","e","t"," ","a","=","1",";","{","l","e","t"," ","b","=",
                "2",";","{","u",";","}","}","g","o","r","u","n","(","a",")",
                ";">>],
    \* func f(){{u;}}for(let i=0;i<2;i=i+1){f();}
    [name |-> "error_in_call_in_for",
     text |-> <<"f","u","n","c"," ","f","(",")","{","{","u",";","}","}","f",
                "o","r","(","l","e","t"," ","i","=","0",";","i","<","2",";",
                "i","=","i","+","1",")","{","f","(",")",";","}">>],
    \* func f(){for(;;){{return 1;}}}gorun(f());let a=2;gorun(a);
    [name |-> "return_in_for_block",
     text |-> <<"f","u","n","c"," ","f","(",")","{","f","o","r","(",";",";",
                ")","{","{","r","e","t","u","r","n"," ","1",";","}","}","}",
                "g","o","r","u","n","(","f","(",")",")",";","l","e","t"," ",
                "a","=","2",";","g","o","r","u","n","(","a",")",";">>],
    \* for(let i=0;i<2;i=i+1){{return i;}}
    [name |-> "return_in_top_for",
     text |-> <<"f","o","r","(","l","e","t"," ","i","=","0",";","i","<","2",
                ";","i","=","i","+","1",")","{","{","r","e","t","u","r","n",
                " ","i",";","}","}">>],
    \* let a=1;let b=;gorun(a);
    [name |-> "parse_error_midway",
     text |-> <<"l","e","t"," ","a","=","1",";","l","e","t"," ","b","=",";",
                "g","o","r","u","n","(","a",")",";">>],
    \* func f(){let a=;gorun(1);}gorun(2);
    [name |-> "parse_error_in_block",
     text |-> <<"f","u","n","c"," ","f","(",")","{","l","e","t"," ","a","=",
                ";","g","o","r","u","n","(","1",")",";","}","g","o","r","u",
                "n","(","2",")",";">>],
    \* 
    [name |-> "empty",
     text |-> <<>>]
  >>

ProgramNames == {Programs[i].name : i \in 1..Len(Programs)}
ProgramText(name) ==
  Programs[CHOOSE i \in 1..Len(Programs) : Programs[i].name = name].text

\* Operand expressions of every kind of value, with the value each evaluates
\* to after the prelude `func f(){}let n;` (f is the first KSFunction object).
Operands ==
  <<
    [text |-> <<"n">>, value |-> VNone],
    [text |-> <<"(","1","=","=","1",")">>, value |-> VBool(TRUE)],
    [text |-> <<"(","1","=","=","2",")">>, value |-> VBool(FALSE)],
    [text |-> <<"0">>, value |-> VInt(0)],
    [text |-> <<"1">>, value |-> VInt(1)],
    [text |-> <<"2">>, value |-> VInt(2)],
    [text |-> <<"2",".","0">>, value |-> VFloat(2, 1)],
    [text |-> <<"0",".","5">>, value |-> VFloat(1, 2)],
    [text |-> <<"\"","a","\"">>, value |-> VStr(<<"a">>)],
    [text |-> <<"\"","a","b","\"">>, value |-> VStr(<<"a","b">>)],
    [text |-> <<"f">>, value |-> [k |-> "KSFunction", id |-> 1]]
  >>

BinaryOperators ==
  << <<"+">>, <<"-">>, <<"*">>, <<"/">>, <<"%">>, <<"=","=">>, <<"!","=">>,
     <<"<">>, <<">">>, <<"<","=">>, <<">","=">>, <<"&","&">>, <<"|","|">> >>
UnaryOperators == << <<"-">>, <<"!">> >>

\* Right operands with an effect that shows: an assignment to x, a call of g
\* (which prints), a division by zero, an undefined name.
Effects ==
  << <<"(","x","=","1",")">>,
     <<"g","(",")">>,
     <<"(","1","/","0",")">>,
     <<"u">> >>

Prelude == <<"f","u","n","c"," ","f","(",")","{","}","l","e","t"," ","n",";">>
EffectPrelude ==
  <<"f","u","n","c"," ","f","(",")","{","}","f","u","n","c"," ",
  "g","(",")","{","g","o","r","u","n","(","\"","g","\"",")",";",
  "r","e","t","u","r","n"," ","1",";","}","l","e","t"," ","n",
  ";","l","e","t"," ","x","=","0",";">>
\* Call expressions: a callee, applied to at most two of the arguments.  The
\* callees are functions of 0, 1 and 2 parameters that print "h", then None and
\* an integer; the arguments are calls that print, an assignment to x and an
\* undefined name.
CallPrelude ==
  <<"f","u","n","c"," ","a","(",")","{","g","o","r","u","n","(",
    "\"","a","\"",")",";","r","e","t","u","r","n"," ","1",";","}",
    "f","u","n","c"," ","b","(",")","{","g","o","r","u","n","(",
    "\"","b","\"",")",";","r","e","t","u","r","n"," ","2",";","}",
    "f","u","n","c"," ","h","0","(",")","{","g","o","r","u","n",
    "(","\"","h","\"",")",";","}","f","u","n","c"," ","h","1","(",
    "p",")","{","g","o","r","u","n","(","\"","h","\"",")",";","}",
    "f","u","n","c"," ","h","2","(","p",",","q",")","{","g","o",
    "r","u","n","(","\"","h","\"",")",";","}","l","e","t"," ","n",
    ";","l","e","t"," ","x","=","0",";">>
Callees == << <<"h","0">>, <<"h","1">>, <<"h","2">>, <<"n">>, <<"x">> >>
Arguments ==
  << <<"a","(",")">>, <<"b","(",")">>, <<"(","x","=","1",")">>, <<"u">> >>
\* No argument (0, 0), one (l, 0) or two (l, r).
ArgumentChoices ==
  {p \in (0..Len(Arguments)) \X (0..Len(Arguments)) : p[1] = 0 => p[2] = 0}
ArgumentList(l, r) ==
  IF l = 0 THEN <<>>
  ELSE IF r = 0 THEN Arguments[l]
  ELSE Arguments[l] \o <<",">> \o Arguments[r]

GorunOf(e) == <<"g","o","r","u","n","(">> \o e \o <<")",";">>

\* An input of the model: a whole program, or a text built around operands:
\*   binary:  func f(){}let n;gorun(L);gorun(R);gorun(L op R);
\*   unary:   func f(){}let n;gorun(L);gorun(op L);
\*   logical: func f(){}func g(){gorun("g");return 1;}let n;let x=0;
\*            gorun(L op E);gorun(x);
\*   call:    func a(){gorun("a");return 1;}func b(){gorun("b");return 2;}
\*            func h0(){gorun("h");}func h1(p){gorun("h");}
\*            func h2(p,q){gorun("h");}let n;let x=0;
\*            C(A, A);gorun(x);
\*   missing: a path that names no file
\*   interactive: no file; up to three lines typed at the prompt
\* The lines typed in interactive mode: a declaration, a line whose second
\* statement fails at run time after the first assigned, a line that prints,
\* a function that assigns to a global, a line whose second statement raises
\* a TypeError, the exit command, a blank line, a line with a syntax error.
Lines ==
  <<
     \* let a=1;
     <<"l","e","t"," ","a","=","1",";">>,
     \* a=2;gorun(u);a=3;
     <<"a","=","2",";","g","o","r","u","n","(","u",")",";","a","=","3",";">>,
     \* gorun(a);
     <<"g","o","r","u","n","(","a",")",";">>,
     \* func f(){a=a+1;return a;}gorun(f());
     <<"f","u","n","c"," ","f","(",")","{","a","=","a","+","1",";","r","e","t","u","r","n"," ","a",";","}","g","o","r","u","n","(","f","(",")",")",";">>,
     \* let c=5;gorun(c<"s");c=6;
     <<"l","e","t"," ","c","=","5",";","g","o","r","u","n","(","c","<","\"","s","\"",")",";","c","=","6",";">>,
     \*  exit 
     <<" ","e","x","i","t"," ">>,
     \*   
     <<" "," ">>,
     \* let a=;
     <<"l","e","t"," ","a","=",";">>
  >>
\* No line (0, 0, 0), one (a, 0, 0), two (a, b, 0) or three.
SessionChoices ==
  {p \in (0..Len(Lines)) \X (0..Len(Lines)) \X (0..Len(Lines)) :
     /\ p[1] = 0 => p[2] = 0
     /\ p[2] = 0 => p[3] = 0}
Session(in) ==
  IF in.kind # "interactive" \/ in.op = 0 THEN <<>>
  ELSE IF in.l = 0 THEN <<Lines[in.op]>>
  ELSE IF in.r = 0 THEN <<Lines[in.op], Lines[in.l]>>
  ELSE <<Lines[in.op], Lines[in.l], Lines[in.r]>>

Input(kind, name, op, l, r) ==
  [kind |-> kind, name |-> name, op |-> op, l |-> l, r |-> r]

Inputs ==
  {Input("program", name, 0, 0, 0) : name \in ProgramNames}
  \cup {Input("binary", "", op, l, r) :
          op \in 1..Len(BinaryOperators), l \in 1..Len(Operands),
          r \in 1..Len(Operands)}
  \cup {Input("unary", "", op, l, 0) :
          op \in 1..Len(UnaryOperators), l \in 1..Len(Operands)}
  \cup {Input("logical", "", op, l, r) :
          op \in {12, 13}, l \in 1..Len(Operands), r \in 1..Len(Effects)}
  \cup {Input("call", "", op, p[1], p[2]) :
          op \in 1..Len(Callees), p \in ArgumentChoices}
  \cup {Input("missing", "", 0, 0, 0)}
  \cup {Input("interactive", "", p[1], p[2], p[3]) : p \in SessionChoices}

SourceText(in) ==
  CASE in.kind = "program" -> ProgramText(in.name)
    [] in.kind = "binary" ->
         Prelude \o GorunOf(Operands[in.l].text) \o GorunOf(Operands[in.r].text)
           \o GorunOf(Operands[in.l].text \o BinaryOperators[in.op]
                        \o Operands[in.r].text)
    [] in.kind = "unary" ->
         Prelude \o GorunOf(Operands[in.l].text)
           \o GorunOf(UnaryOperators[in.op] \o Operands[in.l].text)
    [] in.kind = "logical" ->
         EffectPrelude
           \o GorunOf(Operands[in.l].text \o BinaryOperators[in.op]
                        \o Effects[in.r])
           \o GorunOf(<<"x">>)
    [] in.kind = "call" ->
         CallPrelude
           \o Callees[in.op] \o <<"(">> \o ArgumentList(in.l, in.r)
           \o <<")", ";">>
           \o GorunOf(<<"x">>)
    [] in.kind = "missing" -> <<>>

\* ------------------------------------------------------------------------
\* src/ks.py: KSCompiler.compile_file on one input, or run_interactive on the
\* lines of one session, step by step
\* ------------------------------------------------------------------------

VARIABLES
  input,              \* the input chosen for this run
  stdin,              \* interactive mode: the lines not read yet
  pc,                 \* where compile_file / run / interpret stands
  text, pos, line, column, tokens,         \* Lexer
  parser_tokens, current, statements,      \* Parser.tokens, Parser.current,
                                           \* the list parse() builds
  ast,                \* the Program parse() returned, NoneNode before
  index,              \* visit_program: the next top-level statement
  envs, environment, nobj,                 \* Interpreter: the Environment
                                           \* heap, Interpreter.environment,
                                           \* the KSFunction objects created
  out, stderr,        \* lines gorun printed to stdout; messages on stderr
  raised,             \* the exception propagating, NoExc when none
  success,            \* what interpret() returned: "unset", "True", "False"
  had_error, had_runtime_error,            \* KSCompiler
  exit_code           \* the process exit code, -1 while running

vars ==
  <<input, stdin, pc, text, pos, line, column, tokens, parser_tokens, current,
    statements, ast, index, envs, environment, nobj, out, stderr, raised,
    success, had_error, had_runtime_error, exit_code>>

lexer_vars == <<text, pos, line, column, tokens>>
parser_vars == <<parser_tokens, current, statements, ast>>
interpreter_vars == <<index, envs, environment, nobj, out, success>>
compiler_vars == <<had_error, had_runtime_error, exit_code>>

\* main: KSCompiler(), and the start of compile_file(file_path) or, with no
\* argument, of run_interactive(): Interpreter() and the loop at its prompt.
Init ==
  /\ input \in Inputs
  /\ stdin = Session(input)
  /\ pc = IF input.kind = "interactive" THEN "run_interactive"
          ELSE "compile_file"
  /\ text = <<>> /\ pos = 0 /\ line = 1 /\ column = 1 /\ tokens = <<>>
  /\ parser_tokens = <<>> /\ current = 0 /\ statements = <<>>
  /\ ast = NoneNode
  /\ index = 1
  /\ envs = IF input.kind = "interactive" THEN <<Environment(0)>> ELSE <<>>
  /\ environment = IF input.kind = "interactive" THEN 1 ELSE 0
  /\ nobj = 0
  /\ out = <<>> /\ stderr = <<>>
  /\ raised = NoExc
  /\ success = "unset"
  /\ had_error = FALSE /\ had_runtime_error = FALSE
  /\ exit_code = -1

\* str.strip(): without the whitespace at both ends.
whitespace == {" ", "\t", "\n", "\r"}
RECURSIVE lstrip(_), rstrip(_)
lstrip(s) ==
  IF s # <<>> /\ Head(s) \in whitespace THEN lstrip(Tail(s)) ELSE s
rstrip(s) ==
  IF s # <<>> /\ s[Len(s)] \in whitespace
    THEN rstrip(SubSeq(s, 1, Len(s) - 1)) ELSE s
strip(s) == rstrip(lstrip(s))

\* run_interactive: input() returns a line.  `exit` leaves the loop, and
\* main returns; a line that is not blank is run on the session's interpreter,
\* starting with Lexer(line); a blank line is skipped.
ReadLine ==
  /\ pc = "run_interactive"
  /\ stdin # <<>>
  /\ stdin' = Tail(stdin)
  /\ IF strip(Head(stdin)) = <<"e","x","i","t">>
       THEN /\ pc' = "exit"
            /\ exit_code' = 0
            /\ UNCHANGED <<lexer_vars, statements, ast, success>>
     ELSE IF strip(Head(stdin)) # <<>>
       THEN /\ text' = Head(stdin)
            /\ pos' = 0 /\ line' = 1 /\ column' = 1 /\ tokens' = <<>>
            /\ statements' = <<>> /\ ast' = NoneNode
            /\ success' = "unset"
            /\ pc' = "tokenize"
            /\ UNCHANGED exit_code
     ELSE UNCHANGED <<pc, exit_code, lexer_vars, statements, ast, success>>
  /\ UNCHANGED <<input, parser_tokens, current, index, envs, environment,
                 nobj, out, stderr, raised, had_error, had_runtime_error>>

\* run_interactive: input() raises EOFError at the end of the lines; the loop
\* ends and main returns.
EndOfInput ==
  /\ pc = "run_interactive"
  /\ stdin = <<>>
  /\ exit_code' = 0
  /\ pc' = "exit"
  /\ UNCHANGED <<input, stdin, lexer_vars, parser_vars, interpreter_vars,
                 stderr, raised, had_error, had_runtime_error>>

\* run_interactive after run(line, "<interactive>", interpreter):
\* `self.had_error = False`, then the prompt again.
RunInteractiveReset ==
  /\ pc = "run_returned"
  /\ input.kind = "interactive"
  /\ had_error' = FALSE
  /\ pc' = "run_interactive"
  /\ UNCHANGED <<input, stdin, lexer_vars, parser_vars, interpreter_vars,
                 stderr, raised, had_runtime_error, exit_code>>

\* compile_file: open and read the file, then run(source_code) starts with
\* Lexer(source_code).
ReadFile ==
  /\ pc = "compile_file"
  /\ input.kind # "missing"
  /\ text' = SourceText(input)
  /\ pos' = 0 /\ line' = 1 /\ column' = 1 /\ tokens' = <<>>
  /\ pc' = "tokenize"
  /\ UNCHANGED <<input, stdin, parser_vars, interpreter_vars, stderr, raised,
                 compiler_vars>>

\* compile_file: FileNotFoundError is printed and the process exits with 1.
FileNotFound ==
  /\ pc = "compile_file"
  /\ input.kind = "missing"
  /\ stderr' = Append(stderr, "FileNotFoundError")
  /\ exit_code' = 1
  /\ pc' = "exit"
  /\ UNCHANGED <<input, stdin, lexer_vars, parser_vars, interpreter_vars, raised,
                 had_error, had_runtime_error>>

\* One iteration of the while loop of Lexer.tokenize.
TokenizeIteration ==
  /\ pc = "tokenize"
  /\ pos < Len(text)
  /\ LET iteration(r) ==
           /\ pos' = r.lx.pos /\ line' = r.lx.line /\ column' = r.lx.column
           /\ tokens' = tokens \o r.toks
           /\ raised' = r.exc
           /\ pc' = IF r.exc # NoExc THEN "run_except" ELSE "tokenize"
     IN  iteration(tokenize_iteration(text, Cursor(pos, line, column)))
  /\ UNCHANGED <<input, stdin, text, parser_vars, interpreter_vars, stderr,
                 compiler_vars>>

\* The end of Lexer.tokenize (the EOF token), then in run: the had_error test
\* and Parser(tokens).
TokenizeReturn ==
  /\ pc = "tokenize"
  /\ pos >= Len(text)
  /\ tokens' = Append(tokens, Token("EOF", <<>>, line, column))
  /\ IF had_error
       THEN /\ pc' = "run_returned"
            /\ UNCHANGED <<parser_tokens, current>>
       ELSE /\ parser_tokens' = filter_tokens(tokens')
            /\ current' = 0
            /\ pc' = "parse"
  /\ UNCHANGED <<input, stdin, text, pos, line, column, statements, ast,
                 interpreter_vars, stderr, raised, compiler_vars>>

\* One iteration of the while loop of Parser.parse.
ParseDeclaration ==
  /\ pc = "parse"
  /\ ~is_at_end(parser_tokens, current)
  /\ LET iteration(stmt) ==
           /\ current' = stmt.cur
           /\ raised' = stmt.exc
           /\ IF stmt.exc # NoExc
                THEN pc' = "run_except" /\ UNCHANGED statements
                ELSE pc' = "parse"
                     /\ statements' = Append(statements, stmt.node)
     IN  iteration(declaration(parser_tokens, current))
  /\ UNCHANGED <<input, stdin, lexer_vars, parser_tokens, ast, interpreter_vars,
                 stderr, compiler_vars>>

\* A variant of ParseReturn in which every run makes its own Interpreter(),
\* as if run_interactive passed none.
ParseReturn_fresh ==
  /\ pc = "parse"
  /\ is_at_end(parser_tokens, current)
  /\ ast' = Program(statements)
  /\ IF had_error
       THEN /\ pc' = "run_returned"
            /\ UNCHANGED <<index, envs, environment>>
       ELSE /\ envs' = <<Environment(0)>>
            /\ environment' = 1
            /\ index' = 1
            /\ pc' = "interpret"
  /\ UNCHANGED <<input, stdin, lexer_vars, parser_tokens, current, statements, nobj,
                 out, success, stderr, raised, compiler_vars>>

\* The end of Parser.parse, then in run: the had_error test, Interpreter()
\* when run was given none (interactive mode gives the session's), and the
\* start of interpret(ast).
ParseReturn ==
  /\ pc = "parse"
  /\ is_at_end(parser_tokens, current)
  /\ ast' = Program(statements)
  /\ IF had_error
       THEN /\ pc' = "run_returned"
            /\ UNCHANGED <<index, envs, environment>>
       ELSE /\ IF input.kind = "interactive"
                 THEN UNCHANGED <<envs, environment>>
                 ELSE /\ envs' = <<Environment(0)>>
                      /\ environment' = 1
            /\ index' = 1
            /\ pc' = "interpret"
  /\ UNCHANGED <<input, stdin, lexer_vars, parser_tokens, current, statements, nobj,
                 out, success, stderr, raised, compiler_vars>>

\* One iteration of the for loop of visit_program.
ExecuteStatement ==
  /\ pc = "interpret"
  /\ index <= Len(ast.statements)
  /\ LET iteration(r) ==
           /\ envs' = r.envs
           /\ environment' = r.environment
           /\ out' = r.out
           /\ nobj' = r.nobj
           /\ raised' = r.exc
           /\ IF r.exc # NoExc
                THEN pc' = "interpret_except" /\ UNCHANGED index
                ELSE pc' = "interpret" /\ index' = index + 1
     IN  iteration(execute(ast.statements[index],
                           Walk(envs, environment, out, nobj, NoExc, VNone)))
  /\ UNCHANGED <<input, stdin, lexer_vars, parser_vars, success, stderr,
                 compiler_vars>>

\* interpret: visit_program returned; interpret returns True.
InterpretReturn ==
  /\ pc = "interpret"
  /\ index > Len(ast.statements)
  /\ success' = "True"
  /\ pc' = "run_interpreted"
  /\ UNCHANGED <<input, stdin, lexer_vars, parser_vars, index, envs, environment,
                 nobj, out, stderr, raised, compiler_vars>>

\* interpret: `except KSRuntimeError` prints the error and returns False; any
\* other exception leaves interpret and reaches the handlers of run.
InterpretExcept ==
  /\ pc = "interpret_except"
  /\ IF raised.type = "KSRuntimeError"
       THEN /\ stderr' = Append(stderr, "Runtime Error")
            /\ success' = "False"
            /\ raised' = NoExc
            /\ pc' = "run_interpreted"
       ELSE /\ pc' = "run_except"
            /\ UNCHANGED <<stderr, success, raised>>
  /\ UNCHANGED <<input, stdin, lexer_vars, parser_vars, index, envs, environment,
                 nobj, out, compiler_vars>>

\* run: `if not success: self.had_runtime_error = True`.
RunInterpreted ==
  /\ pc = "run_interpreted"
  /\ had_runtime_error' = (had_runtime_error \/ success # "True")
  /\ pc' = "run_returned"
  /\ UNCHANGED <<input, stdin, lexer_vars, parser_vars, interpreter_vars, stderr,
                 raised, had_error, exit_code>>

\* run: `except ParseError` and `except Exception` both call error(), which
\* reports on stderr and sets had_error.
RunExcept ==
  /\ pc = "run_except"
  /\ stderr' = Append(stderr, IF raised.type = "ParseError"
                                THEN "ParseError" ELSE "Exception")
  /\ had_error' = TRUE
  /\ raised' = NoExc
  /\ pc' = "run_returned"
  /\ UNCHANGED <<input, stdin, lexer_vars, parser_vars, interpreter_vars,
                 had_runtime_error, exit_code>>

\* compile_file after run: sys.exit(65), sys.exit(70), or a normal return.
CompileFileExit ==
  /\ pc = "run_returned"
  /\ input.kind # "interactive"
  /\ exit_code' = IF had_error THEN 65
                  ELSE IF had_runtime_error THEN 70 ELSE 0
  /\ pc' = "exit"
  /\ UNCHANGED <<input, stdin, lexer_vars, parser_vars, interpreter_vars, stderr,
                 raised, had_error, had_runtime_error>>

Next ==
  \/ ReadLine
  \/ EndOfInput
  \/ RunInteractiveReset
  \/ ReadFile
  \/ FileNotFound
  \/ TokenizeIteration
  \/ TokenizeReturn
  \/ ParseDeclaration
  \/ ParseReturn
  \/ ExecuteStatement
  \/ InterpretReturn
  \/ InterpretExcept
  \/ RunInterpreted
  \/ RunExcept
  \/ CompileFileExit

Spec == Init /\ [][Next]_vars

\* ------------------------------------------------------------------------
\* Properties
\* ------------------------------------------------------------------------

\* The vocabulary of the specification: a number is an integer or a floating
\* value (a boolean is not), and equality is by kind and content, with numbers
\* compared by numeric value.
SpecNumber(v) == v.k \in {"int", "float"}
SpecEquals(a, b) ==
  IF SpecNumber(a) /\ SpecNumber(b) THEN a.n * Denom(b) = b.n * Denom(a)
  ELSE IF a.k # b.k THEN FALSE
  ELSE IF a.k = "NoneType" THEN TRUE
  ELSE IF a.k = "bool" THEN a.b = b.b
  ELSE IF a.k = "str" THEN a.s = b.s
  ELSE a.id = b.id

Left(in) == Operands[in.l].value
Right(in) == Operands[in.r].value
BinaryOperator(in) == BinaryOperators[in.op]

\* interpret was entered and an exception other than KSRuntimeError left it.
LeftInterpret == pc = "run_except" /\ ast # NoneNode
\* tokenize or parse raised.
LeftFrontEnd == pc = "run_except" /\ ast = NoneNode
\* interpret reported a runtime error: it returned False.
ReportedFailure == success = "False"

\* C1: evaluating `l && r` with a falsy l, or `l || r` with a truthy l, never
\* evaluates r: no effect of r occurs.  In the text
\* `...let x=0;gorun(L op E);gorun(x);` every E has an effect that shows (it
\* assigns 1 to x, prints a line, or raises a runtime error), so when L decides
\* the result the run succeeds and prints exactly two lines, the second "0".
ShortCircuits(in) ==
  /\ in.kind = "logical"
  /\ \/ BinaryOperator(in) = <<"&","&">> /\ ~is_truthy(Left(in))
     \/ BinaryOperator(in) = <<"|","|">> /\ is_truthy(Left(in))

C1_ShortCircuit ==
  (pc = "exit" /\ ShortCircuits(input)) =>
     /\ success = "True"
     /\ Len(out) = 2
     /\ out[2] = <<"0">>

\* C2: a `return` that executes while no function call is active is reported
\* by interpret as a runtime error: interpret returns failure, and the return
\* signal never leaves interpret.
TopLevelReturnPrograms ==
  {"return_top", "return_top_bare", "return_in_block", "return_in_if",
   "return_in_while", "return_in_for"}

C2_ReturnOutsideFunction ==
  /\ ~(LeftInterpret /\ raised.type = "ReturnValue")
  /\ (pc = "exit" /\ input.kind = "program"
        /\ input.name \in TopLevelReturnPrograms) => ReportedFailure

\* C3: where `true` or `false` stands as a primary expression, tokenize emits a
\* BOOLEAN token and parse accepts it, producing a boolean Literal node with the
\* matching value; no ParseError is raised.
BooleanLiteralPrograms == {"true_literal", "false_literal", "true_condition"}

BooleanLiteralNode(name, program) ==
  CASE name = "true_literal" -> program.statements[1].expression
    [] name = "false_literal" -> program.statements[1].initializer
    [] name = "true_condition" -> program.statements[1].condition

C3_BooleanLiteral ==
  (input.kind = "program" /\ input.name \in BooleanLiteralPrograms) =>
     /\ (pc \notin {"compile_file", "tokenize"} =>
           \E i \in 1..Len(tokens) : tokens[i].type = "BOOLEAN")
     /\ ~(LeftFrontEnd /\ raised.type = "ParseError")
     /\ (pc = "exit" =>
           /\ ast # NoneNode
           /\ BooleanLiteralNode(input.name, ast) =
                LiteralExpression(VBool(input.name # "false_literal"),
                                  "boolean"))

\* C4: when at least one of l, r is a string, `l + r` is stringify(l) followed
\* by stringify(r), with the stringify gorun uses.  In the text
\* `gorun(L);gorun(R);gorun(L+R);` the third line printed is the first followed
\* by the second.
C4_Concatenation ==
  (pc = "exit" /\ input.kind = "binary" /\ BinaryOperator(input) = <<"+">>
     /\ (Left(input).k = "str" \/ Right(input).k = "str")) =>
     /\ success = "True"
     /\ Len(out) = 3
     /\ out[3] = out[1] \o out[2]

\* C5: `<`, `<=`, `>`, `>=` on a pair of operands that is neither two numbers
\* nor two strings produce no value and end in a runtime error that interpret
\* reports by returning failure.
C5_OrderingTypeError ==
  (pc = "exit" /\ input.kind = "binary"
     /\ BinaryOperator(input) \in {<<"<">>, <<"<","=">>, <<">">>, <<">","=">>}
     /\ ~(SpecNumber(Left(input)) /\ SpecNumber(Right(input)))
     /\ ~(Left(input).k = "str" /\ Right(input).k = "str")) =>
     /\ ReportedFailure
     /\ Len(out) = 2

\* C6: binary `-`, `*`, `%`, `/` and unary `-` with an operand that is not a
\* number produce no value and end in a runtime error that interpret reports by
\* returning failure.
C6_ArithmeticTypeError ==
  /\ (pc = "exit" /\ input.kind = "binary"
        /\ BinaryOperator(input) \in {<<"-">>, <<"*">>, <<"%">>, <<"/">>}
        /\ ~(SpecNumber(Left(input)) /\ SpecNumber(Right(input)))) =>
        /\ ReportedFailure
        /\ Len(out) = 2
  /\ (pc = "exit" /\ input.kind = "unary"
        /\ UnaryOperators[input.op] = <<"-">>
        /\ ~SpecNumber(Left(input))) =>
        /\ ReportedFailure
        /\ Len(out) = 1

\* C7: `a == b` is true only when a and b have the same kind and equal content
\* or are numbers with equal numeric value (a boolean never equals a number,
\* null equals only null), and `a != b` is the negation of `a == b`.
C7_Equality ==
  (pc = "exit" /\ input.kind = "binary"
     /\ BinaryOperator(input) \in {<<"=","=">>, <<"!","=">>}) =>
     /\ success = "True"
     /\ Len(out) = 3
     /\ out[3] = stringify(VBool(SpecEquals(Left(input), Right(input))
                                   = (BinaryOperator(input) = <<"=","=">>)))

\* C8: running a readable file ends with exit code 65 exactly when lexing or
\* parsing fails, with 70 exactly when evaluation fails at run time, and with 0
\* otherwise.  Lexing or parsing failed when no Program was returned;
\* evaluation failed when visit_program did not get past its last statement.
FrontEndFailed == ast = NoneNode
EvaluationFailed == ast # NoneNode /\ index <= Len(ast.statements)

C8_ExitCodes ==
  (pc = "exit" /\ input.kind \notin {"missing", "interactive"}) =>
     /\ (exit_code = 65) = FrontEndFailed
     /\ (exit_code = 70) = EvaluationFailed
     /\ (exit_code = 0) = (~FrontEndFailed /\ ~EvaluationFailed)

\* C9: parse(tokenize(s)) either returns a complete Program or raises one
\* lexer error (the lexer raises SyntaxError) or one ParseError; no other kind
\* of failure leaves the two stages, and no partly built tree is returned.
C9_FrontEndOutcome ==
  /\ LeftFrontEnd =>
       \/ raised.type = "SyntaxError" /\ parser_tokens = <<>>
       \/ raised.type = "ParseError" /\ parser_tokens # <<>>
  /\ ast # NoneNode =>
       /\ ast = Program(statements)
       /\ is_at_end(parser_tokens, current)

\* C10: when the last string literal of the source is not closed before the end
\* of input (also when the last character is a backslash inside it), tokenize
\* raises no error: it emits a STRING token holding the characters read so far,
\* then the EOF token.
UnterminatedPrograms ==
  {"unterminated", "unterminated_in_call", "unterminated_backslash",
   "unterminated_escaped_quote", "unterminated_empty"}

UnterminatedContent(name) ==
  CASE name = "unterminated" -> <<"a","b","c">>
    [] name = "unterminated_in_call" -> <<"a","b">>
    [] name = "unterminated_backslash" -> <<"a","b","c">>
    [] name = "unterminated_escaped_quote" -> <<"a","\"">>
    [] name = "unterminated_empty" -> <<>>

C10_UnterminatedString ==
  (input.kind = "program" /\ input.name \in UnterminatedPrograms
     /\ pc \notin {"compile_file", "tokenize"}) =>
     /\ Len(tokens) >= 2
     /\ tokens[Len(tokens)].type = "EOF"
     /\ tokens[Len(tokens) - 1].type = "STRING"
     /\ tokens[Len(tokens) - 1].value = UnterminatedContent(input.name)

\* The scope that defines name, innermost first along the chain of parents that
\* starts at scope e of heap h; 0 when no scope on the chain defines it.
RECURSIVE DefiningScope(_, _, _)
DefiningScope(h, e, name) ==
  IF name \in DOMAIN h[e].variables THEN e
  ELSE IF h[e].parent # 0 THEN DefiningScope(h, h[e].parent, name)
  ELSE 0

\* The names bound anywhere in the heap, and one name bound nowhere.
UnboundName == <<"z","z">>
HeapNames ==
  UNION {DOMAIN envs[e].variables : e \in 1..Len(envs)} \cup {UnboundName}

AssignedValue == VStr(<<"n","e","w">>)
AssignmentTo(name) ==
  AssignmentExpression(IdentifierExpression(name),
                       LiteralExpression(AssignedValue, "string"))

\* C11: an assignment `x = v` executed in any scope e of any heap the
\* interpreter reaches changes exactly the binding of x in the innermost scope
\* on e's chain that defines x and nothing else; when no scope on the chain
\* defines x it raises the runtime error "Undefined variable", creates no
\* binding and leaves the heap as it was.  The program
\* `let x=1;{x=2;let x=3;x=4;}gorun(x);` ends with x = 2 in the global scope
\* and x = 4 in the block's scope.
C11_AssignmentFrame ==
  /\ \A e \in 1..Len(envs) : \A name \in HeapNames :
       LET st == Walk(envs, e, out, nobj, NoExc, VNone)
           a == visit_assignment(AssignmentTo(name), st)
           d == DefiningScope(envs, e, name)
       IN  /\ a.environment = e /\ a.out = out /\ a.nobj = nobj
           /\ IF d = 0
                THEN /\ a.exc = KSRuntimeError("Undefined variable")
                     /\ a.envs = envs
                ELSE /\ a.exc = NoExc
                     /\ a.value = AssignedValue
                     /\ a.envs = [envs EXCEPT ![d].variables[name] = AssignedValue]
                     /\ \A i \in 1..Len(envs) :
                          DOMAIN a.envs[i].variables = DOMAIN envs[i].variables
  /\ (pc = "exit" /\ input.kind = "program" /\ input.name = "assignment_scopes") =>
       /\ out = << <<"2">> >>
       /\ envs[1].variables[<<"x">>] = VInt(2)
       /\ envs[2].variables[<<"x">>] = VInt(4)

\* C11 happens: an assignment in a block reached a binding of the enclosing
\* scope, and one reached the block's own binding that shadows it; and a heap
\* with a scope whose chain does not define a name bound elsewhere exists.
C11_Witness ==
  /\ pc = "exit" /\ input.kind = "program" /\ input.name = "assignment_scopes"
  /\ Len(envs) = 2 /\ envs[2].parent = 1
  /\ envs[1].variables[<<"x">>] = VInt(2)
  /\ envs[2].variables[<<"x">>] = VInt(4)
  /\ DefiningScope(envs, 2, UnboundName) = 0

\* The values, and the function values, bound anywhere in the heap.
HeapValues ==
  UNION {{envs[e].variables[name] : name \in DOMAIN envs[e].variables} :
           e \in 1..Len(envs)}
HeapFunctions == {v \in HeapValues : v.k = "KSFunction"}

DeclaredName == <<"d","d">>
DeclarationOf(name) == FunctionDeclaration(name, <<>>, BlockStatement(<<>>))
NoneArguments(function) ==
  [i \in 1..Len(function.declaration.parameters) |-> VNone]

\* C12: a function declaration executed in any scope e binds a function value
\* whose captured environment is e; a call of any function value of the heap,
\* from any scope, runs the body in a new environment whose parent is the
\* captured environment, and does not change the parent of any environment;
\* the capture is by reference: the closure counter prints 1, 2, 3, a function
\* sees an assignment made to its captured scope after its declaration (5, 5
\* and 4), and a caller's own binding of the same name is not seen (1).
C12_Closure ==
  /\ \A e \in 1..Len(envs) :
       LET st == Walk(envs, e, out, nobj, NoExc, VNone)
           r == visit_function_declaration(DeclarationOf(DeclaredName), st)
       IN  /\ r.exc = NoExc
           /\ r.envs[e].variables[DeclaredName].k = "KSFunction"
           /\ r.envs[e].variables[DeclaredName].closure = e
           /\ r.envs[e].variables[DeclaredName].declaration
                = DeclarationOf(DeclaredName)
  /\ \A e \in 1..Len(envs) : \A function \in HeapFunctions :
       LET st == Walk(envs, e, out, nobj, NoExc, VNone)
           r == KSFunction_call(function, st, NoneArguments(function))
       IN  /\ Len(r.envs) > Len(envs)
           /\ r.envs[Len(envs) + 1].parent = function.closure
           /\ \A i \in 1..Len(envs) : r.envs[i].parent = envs[i].parent
  /\ (pc = "exit" /\ input.kind = "program") =>
       /\ input.name = "closure_counter" => out = << <<"1">>, <<"2">>, <<"3">> >>
       /\ input.name = "capture_by_reference" => out = << <<"5">>, <<"5">> >>
       /\ input.name = "capture_local" => out = << <<"4">> >>
       /\ input.name = "lexical_scope" => out = << <<"1">> >>

\* C12 happens: the closure counter ran; inc was declared during the call of
\* make, captured that call's environment (2), and each of its three calls ran
\* in an environment of its own below it.
C12_Witness ==
  /\ pc = "exit" /\ input.kind = "program" /\ input.name = "closure_counter"
  /\ out = << <<"1">>, <<"2">>, <<"3">> >>
  /\ envs[1].variables[<<"f">>].closure = 2
  /\ envs[2].variables[<<"n">>] = VInt(3)
  /\ Len(envs) = 5
  /\ \A i \in 3..5 : envs[i].parent = 2

\* The arguments of a call input, as indices into Arguments, in source order.
ArgumentsOf(in) ==
  IF in.l = 0 THEN <<>> ELSE IF in.r = 0 THEN <<in.l>> ELSE <<in.l, in.r>>
\* What evaluating an argument shows: a() prints a, b() prints b, (x=1) sets
\* x, u fails.
ArgumentPrint(i) ==
  IF Arguments[i] = <<"a","(",")">> THEN << <<"a">> >>
  ELSE IF Arguments[i] = <<"b","(",")">> THEN << <<"b">> >>
  ELSE <<>>
ArgumentFails(i) == Arguments[i] = <<"u">>
ArgumentAssigns(i) == Arguments[i] = <<"(","x","=","1",")">>
\* The lines printed by evaluating the arguments from left to right, up to the
\* first that fails.
RECURSIVE ArgumentPrints(_)
ArgumentPrints(args) ==
  IF args = <<>> \/ ArgumentFails(Head(args)) THEN <<>>
  ELSE ArgumentPrint(Head(args)) \o ArgumentPrints(Tail(args))
AllArgumentsEvaluate(args) == \A i \in 1..Len(args) : ~ArgumentFails(args[i])
Assigned(args) == \E i \in 1..Len(args) : ArgumentAssigns(args[i])
CalleeIsFunction(in) == Callees[in.op] \in {<<"h","0">>, <<"h","1">>, <<"h","2">>}
ParameterCount(in) ==
  CASE Callees[in.op] = <<"h","0">> -> 0
    [] Callees[in.op] = <<"h","1">> -> 1
    [] Callees[in.op] = <<"h","2">> -> 2

\* C13: in a call of a function value the arguments are evaluated from left to
\* right, all of them before the body runs, and a call with the wrong number
\* of arguments is a runtime error that runs no statement of the body.  In
\* `C(A, A);gorun(x);` with C a function that prints h: the lines printed are
\* those of the arguments in source order up to the first that fails; h and
\* the value of x follow exactly when every argument was evaluated and their
\* number is the number of parameters; otherwise interpret reports a runtime
\* error.
C13_ArgumentsBeforeBody ==
  (pc = "exit" /\ input.kind = "call" /\ CalleeIsFunction(input)) =>
     LET args == ArgumentsOf(input)
         called == AllArgumentsEvaluate(args)
                     /\ Len(args) = ParameterCount(input)
     IN  /\ out = ArgumentPrints(args)
                    \o (IF called
                          THEN << <<"h">>,
                                  IF Assigned(args) THEN <<"1">> ELSE <<"0">> >>
                          ELSE <<>>)
         /\ success = (IF called THEN "True" ELSE "False")
         /\ exit_code = (IF called THEN 0 ELSE 70)

\* C13 happens: h2(a(),b()) ran: it printed a, then b, then the h of the body.
C13_Witness ==
  /\ pc = "exit" /\ input.kind = "call"
  /\ Callees[input.op] = <<"h","2">>
  /\ ArgumentsOf(input) = <<1, 2>>
  /\ out = << <<"a">>, <<"b">>, <<"h">>, <<"0">> >>

\* func (){ { if (1==1) { return v; } } gorun("after"); return "second"; }
\* declared in scope e: the first return executed is nested in a block and an
\* if, and statements follow it.
NestedReturn(v) ==
  FunctionDeclaration(<<"r">>, <<>>,
    BlockStatement(<<
      BlockStatement(<<
        IfStatement(BinaryExpression(LiteralExpression(VInt(1), "number"),
                                     <<"=","=">>,
                                     LiteralExpression(VInt(1), "number")),
                    BlockStatement(<<ReturnStatement(
                                       LiteralExpression(v, "value"))>>),
                    NoneNode)>>),
      GorunStatement(LiteralExpression(VStr(<<"a","f","t","e","r">>), "string")),
      ReturnStatement(LiteralExpression(VStr(<<"s","e","c","o","n","d">>),
                                        "string"))>>))

\* C14: a call gives the value of the first return its body executes, also
\* when that return is nested in blocks, ifs and loops, and nothing of the body
\* runs after it; the return ends the innermost active call only; a body that
\* ends without a return gives null.  For every value v of the heap and every
\* scope e, calling NestedReturn(v) gives v, prints nothing and raises
\* nothing; and the programs print: return_first 1; return_innermost 1, o, 2;
\* return_in_function 7; return_in_for_function 2; return_absent and
\* return_bare null.
C14_ReturnValue ==
  /\ \A e \in 1..Len(envs) : \A v \in HeapValues \cup {VNone} :
       LET st == Walk(envs, e, out, nobj, NoExc, VNone)
           r == KSFunction_call(VFunc(nobj + 1, NestedReturn(v), e), st, <<>>)
       IN  /\ r.exc = NoExc
           /\ r.value = v
           /\ r.out = out
  /\ (pc = "exit" /\ input.kind = "program") =>
       /\ input.name = "return_first" => out = << <<"1">> >>
       /\ input.name = "return_innermost"
            => out = << <<"1">>, <<"o">>, <<"2">> >>
       /\ input.name = "return_in_function" => out = << <<"7">> >>
       /\ input.name = "return_in_for_function" => out = << <<"2">> >>
       /\ input.name = "return_absent" => out = << <<"n","u","l","l">> >>
       /\ input.name = "return_bare" => out = << <<"n","u","l","l">> >>

\* C14 happens: outer called inner, whose return ended inner only: outer went
\* on to print o and returned 2.
C14_Witness ==
  /\ pc = "exit" /\ input.kind = "program" /\ input.name = "return_innermost"
  /\ out = << <<"1">>, <<"o">>, <<"2">> >>
  /\ success = "True"

\* C15: a runtime error in top-level statement k ends the interpret call
\* there: the loop of visit_program does not advance and runs nothing more;
\* what the statements before k bound or assigned in the global environment
\* stays, and the next interpret call of an interactive session starts from
\* it.  In every step: a statement that raises leaves the loop at k, keeps
\* every global name bound, and when it is gorun(u) changes nothing at all;
\* the loop is entered only by run and continued only from a statement that
\* raised nothing; outside the loop the interpreter's heap, current
\* environment and output do not change, the start of a later run included.
\* And the session `let a=1;`, `a=2;gorun(u);a=3;`, `gorun(a);` prints 2.
GlobalNames(h) == IF h = <<>> THEN {} ELSE DOMAIN h[1].variables
FailingLookup == GorunStatement(IdentifierExpression(<<"u">>))
ErrorSession == Input("interactive", "", 1, 2, 3)
C15_ErrorStep ==
  /\ (pc = "interpret" /\ raised' # NoExc) =>
       /\ index' = index
       /\ pc' = "interpret_except"
       /\ GlobalNames(envs) \subseteq GlobalNames(envs')
       /\ ast.statements[index] = FailingLookup =>
            envs' = envs /\ out' = out /\ environment' = environment
  /\ pc' = "interpret" =>
       \/ pc = "parse" /\ index' = 1
       \/ pc = "interpret" /\ raised' = NoExc
  /\ (pc # "interpret" /\ envs # <<>>) =>
       envs' = envs /\ environment' = environment /\ out' = out
  /\ (input = ErrorSession /\ pc' = "exit") => out' = << <<"2">> >>
C15_ErrorKeepsGlobals == [][C15_ErrorStep]_vars

\* C15 happens: the second line of the session failed in its second
\* statement, after a = 2 and before a = 3, and the third line printed 2.
C15_Witness ==
  /\ input = ErrorSession /\ pc = "exit"
  /\ Len(stderr) = 1 /\ had_runtime_error
  /\ out = << <<"2">> >>
  /\ envs[1].variables[<<"a">>] = VInt(2)

\* C16: a Block, a For statement and a function call leave the current
\* environment as it was before they started, whether they complete, are left
\* by a return or are left by an error; so between top-level statements and
\* after interpret, successful or failed, the current environment is the
\* global one.  From every scope e of the heap and for every body of Bodies
\* (completes; returns; returns from a nested block; undefined variable;
\* TypeError), the block, the for loop and the call of a function closed over
\* the global scope or over e end with e current and with the body's outcome.
One == LiteralExpression(VInt(1), "number")
Bodies ==
  { <<VariableDeclaration(<<"t">>, One)>>,
    <<ReturnStatement(One)>>,
    <<BlockStatement(<<VariableDeclaration(<<"t">>, One),
                       ReturnStatement(One)>>)>>,
    <<ExpressionStatement(IdentifierExpression(UnboundName))>>,
    <<ExpressionStatement(
        BinaryExpression(One, <<"<">>,
                         LiteralExpression(VStr(<<"s">>), "string")))>> }
Outcome(body) ==
  IF body[1].node = "VariableDeclaration" THEN "none"
  ELSE IF body[1].node = "ExpressionStatement"
    THEN IF body[1].expression.node = "IdentifierExpression"
           THEN "KSRuntimeError" ELSE "TypeError"
  ELSE "ReturnValue"
ForOnce(body) ==
  ForStatement(VariableDeclaration(<<"i">>, LiteralExpression(VInt(0), "number")),
               BinaryExpression(IdentifierExpression(<<"i">>), <<"<">>, One),
               AssignmentExpression(IdentifierExpression(<<"i">>),
                 BinaryExpression(IdentifierExpression(<<"i">>), <<"+">>, One)),
               BlockStatement(body))
C16_EnvironmentRestored ==
  /\ envs # <<>> => environment = 1
  /\ \A e \in 1..Len(envs) : \A body \in Bodies :
       LET st == Walk(envs, e, out, nobj, NoExc, VNone)
           block == execute(BlockStatement(body), st)
           for == execute(ForOnce(body), st)
       IN  /\ block.environment = e /\ block.exc.type = Outcome(body)
           /\ for.environment = e /\ for.exc.type = Outcome(body)
           /\ Len(block.envs) > Len(envs) /\ Len(for.envs) > Len(envs)
           /\ \A closure \in {1, e} :
                LET r == KSFunction_call(
                           VFunc(nobj + 1,
                                 FunctionDeclaration(<<"f">>, <<>>,
                                                     BlockStatement(body)),
                                 closure), st, <<>>)
                IN  /\ r.environment = e
                    /\ r.exc.type = IF Outcome(body) = "ReturnValue"
                                      THEN "none" ELSE Outcome(body)

\* C16 happens: the body of a function called in a for loop failed inside a
\* nested block, four environments deep, and interpret ended with the global
\* environment current.
C16_Witness ==
  /\ pc = "run_returned"
  /\ input.kind = "program" /\ input.name = "error_in_call_in_for"
  /\ success = "False"
  /\ Len(envs) >= 4
  /\ environment = 1

\* C17: when the callee of a call is not a function, "Can only call
\* functions" is raised right after the callee is evaluated, before any
\* argument: in `C(A, A);gorun(x);` with C bound to null or to 0, the
\* statement raises that error, nothing is printed and x is still 0.
C17_CalleeCheckedFirst ==
  (input.kind = "call" /\ ~CalleeIsFunction(input)) =>
     /\ pc = "interpret_except" =>
          raised = KSRuntimeError("Can only call functions")
     /\ pc \in {"interpret_except", "exit"} =>
          /\ out = <<>>
          /\ envs[1].variables[<<"x">>] = VInt(0)

\* C18: every NUMBER token has the form digits, or digits, a dot and digits:
\* at most one dot, so that a digit run with a second dot is not one token,
\* and every NUMBER token converts: int(value) when it holds no dot,
\* float(value) otherwise.
NumberTokens == {i \in 1..Len(tokens) : tokens[i].type = "NUMBER"}
C18_NumberToken ==
  \A i \in NumberTokens :
     /\ tokens[i].value # <<>> /\ isdigit(Head(tokens[i].value))
     /\ DotCount(tokens[i].value) <= 1
     /\ DotCount(tokens[i].value) = 1 => PyFloatOk(tokens[i].value)

\* C19: Parser.parse terminates on every token sequence that ends with EOF.
\* The token index stays on a token, the last of which is EOF.  Every
\* iteration of the loop of parse that goes on to another brings the index
\* nearer to EOF, and none moves it back.  A call of declaration at any token
\* but EOF, the calls block_statement makes included, returns with the index
\* on a token; it consumed at least one token or raised; and when it raised
\* ParseError, synchronize left the index at EOF, after a `;` or before a
\* statement keyword.
Synchronized(toks, cur) ==
  \/ is_at_end(toks, cur)
  \/ Parser_previous(toks, cur).type = "SEMICOLON"
  \/ peek(toks, cur).type \in
       {"FUNC", "LET", "FOR", "IF", "WHILE", "GORUN", "RETURN"}
DeclarationEnds(toks, cur) ==
  LET r == declaration(toks, cur)
  IN  /\ r.cur \in cur..(Len(toks) - 1)
      /\ r.cur > cur \/ r.exc # NoExc
      /\ r.exc.type = "ParseError" => Synchronized(toks, r.cur)
C19_Index ==
  parser_tokens # <<>> =>
     /\ current \in 0..(Len(parser_tokens) - 1)
     /\ parser_tokens[Len(parser_tokens)].type = "EOF"
     /\ (pc = "parse" /\ current = 0) =>
          \A cur \in 0..(Len(parser_tokens) - 2) :
             DeclarationEnds(parser_tokens, cur)
     /\ (pc = "run_except" /\ raised.type = "ParseError") =>
          Synchronized(parser_tokens, current)
C19_Iteration ==
  (pc = "parse" /\ parser_tokens' = parser_tokens) =>
     /\ current' >= current
     /\ pc' = "parse" => current' > current
C19_ParseTerminates == []C19_Index /\ [][C19_Iteration]_vars

\* C19 happens: after one declaration was parsed the next raised ParseError,
\* and synchronize stopped after a `;` with tokens still ahead.
C19_Witness ==
  /\ pc = "run_except" /\ raised.type = "ParseError"
  /\ Len(statements) >= 1
  /\ ~is_at_end(parser_tokens, current)
  /\ Parser_previous(parser_tokens, current).type = "SEMICOLON"

\* C20: with numeric operands `a % 0` ends as `a / 0` does: in a runtime
\* error that interpret reports by returning failure; no exception leaves
\* interpret.
C20_ModuloByZero ==
  (input.kind = "binary"
     /\ BinaryOperator(input) \in {<<"/">>, <<"%">>}
     /\ SpecNumber(Left(input)) /\ SpecNumber(Right(input))
     /\ Numer(Right(input)) = 0) =>
     /\ ~LeftInterpret
     /\ pc = "interpret_except" => raised.type = "KSRuntimeError"
     /\ pc = "exit" => ReportedFailure /\ exit_code = 70

=============================================================================
